---------------------------- MODULE Spec2Model ----------------------------
(***************************************************************************)
(* Model of the resume structuring and merge pipeline of job-hunter        *)
(* (src/src/resume_structurer.py).                                          *)
(*                                                                         *)
(* Python values are modelled as follows.                                  *)
(*   str   : a sequence of one-character tokens, so that strip(), lower()  *)
(*           and lstrip(chars) are computed character by character.        *)
(*           Non-ASCII characters are named by their code point:           *)
(*           "U+2022" is the bullet character.                              *)
(*   list  : a sequence.                                                   *)
(*   dict  : a function whose DOMAIN is the set of keys that are present;  *)
(*           d.get(k, default) is Get(d, k, default).                      *)
(* A dict or list held by two names (master_data and the shallow copy      *)
(* result) is one object: a write through one name is seen through the     *)
(* other.  The merge actions compute both views.                           *)
(***************************************************************************)
EXTENDS Integers, Sequences, FiniteSets, TLC

VARIABLES
    pc,               \* "ready" before the call, "done" after it returned
    mode,             \* the mode argument of the call that was made ("" before)
    master,           \* the master_data argument object, as the caller sees it
    extracted,        \* the extracted_data argument object, as the caller sees it
    result,           \* the returned document (NoResult before the call)
    masterBefore,     \* deep snapshot of master_data taken before the call
    extractedBefore,  \* deep snapshot of extracted_data taken before the call
    rawExperience,    \* the list handed to _format_experience
    formatted,        \* the list _format_experience returned (NoResult before)
    \* the inputs of a request and the answers of its environment
    filename,         \* the uploaded file's name
    file_size,        \* the uploaded file's size in bytes
    mime_type,        \* what mimetypes.guess_type answers (<<>> is None)
    use_ai,           \* the use_ai flag
    resume_text,      \* the text handed to structure_resume
    env,              \* the answers of the collaborators during the request
    \* what the web application holds
    validation,       \* the pair validate_file returned
    upload_dir,       \* the names of the files in the upload directory
    session,          \* the session dict
    flashed,          \* the messages flashed, in order
    calls,            \* the calls made to the collaborators, in order
    response,         \* the endpoint the handler redirected to
    structured,       \* the pair structure_resume returned
    \* the master profile file and the requests working on it
    master_file,      \* the content of data/master_resume.json
    requests,         \* the form of each request
    local,            \* the document each request holds in memory
    rpc,              \* where each request is in its handler
    assigned,         \* the Position ids given out so far, in order
    \* the other long-lived objects of the application
    extraction,       \* the pair extract_text_from_pdf returned
    tailor_master,    \* ResumeTailor.master_resume, the tailor's loaded profile
    tailored,         \* the document tailor_full_resume returned
    jobs,             \* JobScraper.jobs["jobs"], the jobs database
    jobs_file,        \* the jobs list held by data/jobs_database.json
    new_jobs,         \* the list the last scrape call returned
    scraped           \* the rows every scrape call was handed, in order

mergeVars == <<mode, master, extracted, result, masterBefore, extractedBefore,
               rawExperience, formatted>>
reqVars == <<filename, file_size, mime_type, use_ai, resume_text, env>>
webVars == <<validation, upload_dir, session, flashed, calls, response, structured>>
fileVars == <<master_file, requests, local, rpc, assigned>>
auxVars == <<extraction, tailor_master, tailored, jobs, jobs_file, new_jobs, scraped>>

vars == <<pc, mergeVars, reqVars, webVars, fileVars, auxVars>>

(***************************************************************************)
(* Bounds of the explored inputs.                                          *)
(***************************************************************************)
MaxExp == 2        \* longest experience list of either input
MaxEdu == 2        \* longest education list of either input
MaxSkills == 2     \* longest skill list of a category of either input
MaxRaw == 2        \* longest list handed to _format_experience
MaxBullets == 2    \* longest bullets list of a raw experience item

NoResult == "NoResult"

\* the values of the variables a specification does not use
IdleMerge ==
    /\ mode = ""
    /\ master = <<>>
    /\ extracted = <<>>
    /\ result = NoResult
    /\ masterBefore = <<>>
    /\ extractedBefore = <<>>
    /\ rawExperience = <<>>
    /\ formatted = NoResult

IdleReq ==
    /\ filename = <<>>
    /\ file_size = 0
    /\ mime_type = <<>>
    /\ use_ai = FALSE
    /\ resume_text = <<>>
    /\ env = <<>>

IdleWeb ==
    /\ validation = NoResult
    /\ upload_dir = {}
    /\ session = <<>>
    /\ flashed = <<>>
    /\ calls = <<>>
    /\ response = ""
    /\ structured = NoResult

IdleFile ==
    /\ master_file = <<>>
    /\ requests = <<>>
    /\ local = <<>>
    /\ rpc = <<>>
    /\ assigned = <<>>

IdleAux ==
    /\ extraction = NoResult
    /\ tailor_master = <<>>
    /\ tailored = NoResult
    /\ jobs = <<>>
    /\ jobs_file = <<>>
    /\ new_jobs = <<>>
    /\ scraped = <<>>

(***************************************************************************)
(* Strings.                                                                *)
(***************************************************************************)
Str_Acme == <<"A", "c", "m", "e">>
Str_AcmeSp == <<"A", "c", "m", "e", " ">>
Str_Eng == <<"E", "n", "g">>
Str_2020 == <<"2", "0", "2", "0", "-", "0", "1">>
Str_2021 == <<"2", "0", "2", "1", "-", "0", "5">>
Str_2022 == <<"2", "0", "2", "2", "-", "0", "2">>
Str_present == <<"p", "r", "e", "s", "e", "n", "t">>
Str_Present == <<"P", "r", "e", "s", "e", "n", "t">>
Str_PRESENT == <<"P", "R", "E", "S", "E", "N", "T">>
Str_Python == <<"P", "y", "t", "h", "o", "n">>
Str_python == <<"p", "y", "t", "h", "o", "n">>
Str_SQL == <<"S", "Q", "L">>
Str_Git == <<"G", "i", "t">>
Str_MIT == <<"M", "I", "T">>
Str_BS == <<"B", "S">>
Str_MS == <<"M", "S">>
Str_CS == <<"C", "S">>
Str_Al == <<"A", "l">>
Str_Bo == <<"B", "o">>
Str_Sp == <<" ">>
Str_TabNl == <<"\t", "\n">>
Str_Empty == <<>>

UpperLetters == <<"A", "B", "C", "D", "E", "F", "G", "H", "I", "J", "K", "L", "M",
                  "N", "O", "P", "Q", "R", "S", "T", "U", "V", "W", "X", "Y", "Z">>
LowerLetters == <<"a", "b", "c", "d", "e", "f", "g", "h", "i", "j", "k", "l", "m",
                  "n", "o", "p", "q", "r", "s", "t", "u", "v", "w", "x", "y", "z">>

\* str.lower() on one character
LowerChar(c) ==
    IF \E i \in 1..Len(UpperLetters) : UpperLetters[i] = c
    THEN LowerLetters[CHOOSE i \in 1..Len(UpperLetters) : UpperLetters[i] = c]
    ELSE c

\* str.lower()
Lower(s) == [i \in 1..Len(s) |-> LowerChar(s[i])]

\* the characters str.strip() removes (those of the model's alphabet)
Whitespace == {" ", "\t", "\n"}

\* str.lstrip(chars): drop the longest prefix made of characters of chars
RECURSIVE LStripChars(_, _)
LStripChars(s, chars) ==
    IF s # <<>> /\ Head(s) \in chars THEN LStripChars(Tail(s), chars) ELSE s

\* str.rstrip(chars)
RECURSIVE RStripChars(_, _)
RStripChars(s, chars) ==
    IF s # <<>> /\ s[Len(s)] \in chars
    THEN RStripChars(SubSeq(s, 1, Len(s) - 1), chars) ELSE s

\* str.strip()
Strip(s) == RStripChars(LStripChars(s, Whitespace), Whitespace)

\* dict.get(k, default)
Get(d, k, default) == IF k \in DOMAIN d THEN d[k] ELSE default

\* the dict d with d[k] = v set (key added when missing)
Put(d, k, v) == [x \in (DOMAIN d) \cup {k} |-> IF x = k THEN v ELSE d[x]]

\* list.insert(0, x) and reversal of a list
Reverse(s) == [i \in 1..Len(s) |-> s[Len(s) + 1 - i]]

\* the set of elements of a list
Range(s) == {s[i] : i \in 1..Len(s)}

\* all lists of at most n elements of S
SeqUpTo(S, n) == UNION {[1..k -> S] : k \in 0..n}

(***************************************************************************)
(* Identifier formatting: f"exp_{n:03d}" and f"bullet_{n:03d}".            *)
(***************************************************************************)
DigitChars == <<"0", "1", "2", "3", "4", "5", "6", "7", "8", "9">>

\* format(n, "03d") for 0 <= n <= 999
Pad3(n) == <<DigitChars[((n \div 100) % 10) + 1],
             DigitChars[((n \div 10) % 10) + 1],
             DigitChars[(n % 10) + 1]>>

ExpId(n) == <<"e", "x", "p", "_">> \o Pad3(n)
BulletId(n) == <<"b", "u", "l", "l", "e", "t", "_">> \o Pad3(n)


(***************************************************************************)
(* _format_experience.  A raw experience item is a dict whose keys may be  *)
(* missing; a raw bullet is [isStr |-> TRUE, text |-> s] for a JSON string *)
(* s and [isStr |-> FALSE, text |-> <<>>] for any other JSON value.        *)
(***************************************************************************)

\* the characters of the argument of lstrip() at resume_structurer.py:198:
\* the source file holds the three characters U+00E2 U+20AC U+00A2 (a
\* mis-decoded bullet sign), a hyphen, an asterisk and a space
FormatMarkerChars == {"U+00E2", "U+20AC", "U+00A2", "-", "*", " "}

\* bullet.strip().lstrip(markers)
CleanBullet(text) == LStripChars(Strip(text), FormatMarkerChars)

\* the index enumerate() gives a kept bullet: its 0-based position j in the raw
\* list, formatted as j+1
BulletNumber(j) == j + 1

\* the inner loop: j is the 0-based enumerate index of Head(rawBullets)
RECURSIVE FormatBullets(_, _)
FormatBullets(rawBullets, j) ==
    IF rawBullets = <<>> THEN <<>>
    ELSE LET bullet == Head(rawBullets)
             rest == FormatBullets(Tail(rawBullets), j + 1)
         IN  IF bullet.isStr
             THEN <<[id |-> BulletId(BulletNumber(j)),
                     original |-> CleanBullet(bullet.text),
                     keywords |-> <<>>,
                     metrics |-> <<>>,
                     tailored_versions |-> <<>>]>> \o rest
             ELSE rest

\* IsCurrent with the end date compared without lower()
IsCurrent_ExactCase(exp) ==
    LET is_current == Get(exp, "current", FALSE)
    IN  IF ~is_current /\ Get(exp, "end_date", Str_Empty) = Str_present
        THEN TRUE
        ELSE is_current

\* is_current as computed at resume_structurer.py:204-206
IsCurrent(exp) ==
    LET is_current == Get(exp, "current", FALSE)
    IN  IF ~is_current /\ Lower(Get(exp, "end_date", Str_Empty)) = Str_present
        THEN TRUE
        ELSE is_current

\* one formatted entry; i is the 0-based enumerate index
FormatEntry(exp, i) ==
    [id |-> ExpId(i + 1),
     company |-> Get(exp, "company", Str_Empty),
     title |-> Get(exp, "title", Str_Empty),
     location |-> Get(exp, "location", Str_Empty),
     start_date |-> Get(exp, "start_date", Str_Empty),
     end_date |-> IF IsCurrent(exp) THEN Str_present ELSE Get(exp, "end_date", Str_Empty),
     current |-> IsCurrent(exp),
     bullets |-> FormatBullets(Get(exp, "bullets", <<>>), 0)]

FormatExperience(experience_list) ==
    [i \in 1..Len(experience_list) |-> FormatEntry(experience_list[i], i - 1)]

(***************************************************************************)
(* merge_with_master and _create_full_resume.                              *)
(***************************************************************************)
PersonalFields == {"name", "email", "phone", "location", "linkedin", "summary"}
Categories == <<"technical", "soft", "tools", "certifications">>
EmptyDict == <<>>

\* datetime.now().strftime("%Y-%m-%d"): one opaque date value
Today == <<"t", "o", "d", "a", "y">>

CreateFullResume(extracted_data) ==
    [meta |-> [version |-> <<"1", ".", "0">>,
               last_updated |-> Today,
               notes |-> <<"I", "m", "p", "o", "r", "t", "e", "d">>],
     personal |-> [k \in PersonalFields \cup {"portfolio"} |->
                      IF k = "portfolio" THEN Str_Empty
                      ELSE Get(Get(extracted_data, "personal", EmptyDict), k, Str_Empty)],
     experience |-> Get(extracted_data, "experience", <<>>),
     education |-> Get(extracted_data, "education", <<>>),
     skills |-> [c \in Range(Categories) |->
                    Get(Get(extracted_data, "skills", EmptyDict), c, <<>>)],
     projects |-> <<>>,
     volunteer |-> <<>>,
     awards |-> <<>>]

\* ExpKey with the end date made part of the key
ExpKey_WithEndDate(e) == <<e.company, e.title, e.start_date, e.end_date>>

\* the dedup key of an experience entry (lines 387, 389, 418, 420)
ExpKey(e) == <<e.company, e.title, e.start_date>>

\* EduKey with the institution alone as the key
EduKey_InstitutionOnly(e) == <<e.institution>>

\* the dedup key of an education entry (lines 394, 396, 425, 427)
EduKey(e) == <<e.institution, e.degree>>

\* InsertExperience with the entry put at the end of the list
InsertExperience_AtEnd(res, exp) ==
    Put(res, "experience", Append(Get(res, "experience", <<>>), exp))

\* result.setdefault("experience", []).insert(0, exp)
InsertExperience(res, exp) ==
    Put(res, "experience", <<exp>> \o Get(res, "experience", <<>>))

\* the loop over extracted_data.get("experience", []); existing_exp is the set
\* built once before the loop
RECURSIVE ExperienceLoop(_, _, _)
ExperienceLoop(res, exps, existing_exp) ==
    IF exps = <<>> THEN res
    ELSE LET exp == Head(exps)
             res1 == IF ExpKey(exp) \notin existing_exp
                     THEN InsertExperience(res, exp) ELSE res
         IN  ExperienceLoop(res1, Tail(exps), existing_exp)

AddExperience(res, extracted_data) ==
    ExperienceLoop(res, Get(extracted_data, "experience", <<>>),
                   {ExpKey(e) : e \in Range(Get(res, "experience", <<>>))})

\* result.setdefault("education", []).append(edu)
AppendEducation(res, edu) ==
    Put(res, "education", Append(Get(res, "education", <<>>), edu))

RECURSIVE EducationLoop(_, _, _)
EducationLoop(res, edus, existing_edu) ==
    IF edus = <<>> THEN res
    ELSE LET edu == Head(edus)
             res1 == IF EduKey(edu) \notin existing_edu
                     THEN AppendEducation(res, edu) ELSE res
         IN  EducationLoop(res1, Tail(edus), existing_edu)

AddEducation(res, extracted_data) ==
    EducationLoop(res, Get(extracted_data, "education", <<>>),
                  {EduKey(e) : e \in Range(Get(res, "education", <<>>))})

\* the list of a skill category of a document ([] when skills or the category
\* is missing)
SkillList(doc, category) == Get(Get(doc, "skills", EmptyDict), category, <<>>)

\* SkillIsNew with the skill compared without lower()
SkillIsNew_CaseSensitive(skill, existing_lower) == skill \notin existing_lower

\* the test of lines 404 and 438
SkillIsNew(skill, existing_lower) == Lower(skill) \notin existing_lower

\* append mode:
\* result.setdefault("skills", {}).setdefault(category, []).append(skill)
AppendSkill(res, category, skill) ==
    Put(res, "skills",
        Put(Get(res, "skills", EmptyDict), category,
            Append(SkillList(res, category), skill)))

\* append mode, lines 403-405: existing is built once per category and is not
\* updated inside the loop
RECURSIVE AppendSkillLoop(_, _, _, _)
AppendSkillLoop(res, category, skills, existing) ==
    IF skills = <<>> THEN res
    ELSE LET skill == Head(skills)
             res1 == IF SkillIsNew(skill, existing)
                     THEN AppendSkill(res, category, skill) ELSE res
         IN  AppendSkillLoop(res1, category, Tail(skills), existing)

RECURSIVE AppendSkillsFrom(_, _, _)
AppendSkillsFrom(res, extracted_data, c) ==
    IF c > Len(Categories) THEN res
    ELSE LET category == Categories[c]
             existing == {Lower(s) : s \in Range(SkillList(res, category))}
         IN  AppendSkillsFrom(
                 AppendSkillLoop(res, category, SkillList(extracted_data, category),
                                 existing),
                 extracted_data, c + 1)

\* merge mode, lines 437-440: existing_lower grows with every skill added
RECURSIVE MergeSkillLoop(_, _, _)
MergeSkillLoop(existing, new_skills, existing_lower) ==
    IF new_skills = <<>> THEN existing
    ELSE LET skill == Head(new_skills)
         IN  IF SkillIsNew(skill, existing_lower)
             THEN MergeSkillLoop(Append(existing, skill), Tail(new_skills),
                                 existing_lower \cup {Lower(skill)})
             ELSE MergeSkillLoop(existing, Tail(new_skills), existing_lower)

\* merge mode, lines 432-442; line 442 stores the list under the category also
\* when nothing was added
RECURSIVE MergeSkillsFrom(_, _, _)
MergeSkillsFrom(res, extracted_data, c) ==
    IF c > Len(Categories) THEN res
    ELSE LET category == Categories[c]
             existing == SkillList(res, category)
             merged == MergeSkillLoop(existing, SkillList(extracted_data, category),
                                      {Lower(s) : s \in Range(existing)})
         IN  MergeSkillsFrom(
                 Put(res, "skills", Put(Get(res, "skills", EmptyDict), category, merged)),
                 extracted_data, c + 1)

\* PersonalOverwrites without the strip() test
PersonalOverwrites_NoStrip(value) == value # Str_Empty

\* the test of line 414: value and value.strip()
PersonalOverwrites(value) == value # Str_Empty /\ Strip(value) # Str_Empty

\* merge mode, lines 413-415: the keys of extracted personal are visited one by
\* one; the writes are to distinct keys, so the order does not matter
UpdatePersonal(res, extracted_data) ==
    LET ep == Get(extracted_data, "personal", EmptyDict)
        written == {k \in DOMAIN ep : PersonalOverwrites(ep[k])}
        old == Get(res, "personal", EmptyDict)
    IN  IF written = {} THEN res
        ELSE Put(res, "personal",
                 [k \in (DOMAIN old) \cup written |->
                     IF k \in written THEN ep[k] ELSE old[k]])

\* result = master_data.copy(): a new top-level dict with the same values
ShallowCopy(master_data) == master_data

\* the append branch, lines 383-407
AppendResult(extracted_data, master_data) ==
    AppendSkillsFrom(
        AddEducation(AddExperience(ShallowCopy(master_data), extracted_data),
                     extracted_data),
        extracted_data, 1)

\* the merge branch, lines 409-444
MergeResult(extracted_data, master_data) ==
    MergeSkillsFrom(
        AddEducation(
            AddExperience(UpdatePersonal(ShallowCopy(master_data), extracted_data),
                          extracted_data),
            extracted_data),
        extracted_data, 1)

\* What the caller's master_data holds after the append or merge branch.
\* copy() is shallow: each value of result under a key that master_data has is
\* the very dict or list master_data holds, and every write of the branch to
\* such a value is in place (insert, append, item assignment on the nested
\* dict).  Keys the branch adds to result with setdefault exist in result only.
MasterAfter(master_data, res) == [k \in DOMAIN master_data |-> res[k]]

\* MergeWithMaster with the replace branch never taken
MergeWithMaster_NoReplace(extracted_data, master_data, m) ==
    IF m = "append" THEN AppendResult(extracted_data, master_data)
    ELSE MergeResult(extracted_data, master_data)

MergeWithMaster(extracted_data, master_data, m) ==
    IF m = "replace" THEN CreateFullResume(extracted_data)
    ELSE IF m = "append" THEN AppendResult(extracted_data, master_data)
    ELSE MergeResult(extracted_data, master_data)

(***************************************************************************)
(* The explored inputs.  An optional section is <<>> when the key is       *)
(* missing from the document and <<v>> when it is present with value v.    *)
(***************************************************************************)
Opt(S) == {<<>>} \cup {<<v>> : v \in S}

\* the one-key dict {k: v} for a present section, the empty dict otherwise
Section(k, opt) == IF opt = <<>> THEN EmptyDict ELSE (k :> opt[1])

Sections == {"personal", "experience", "education", "skills"}

\* raw experience items behind the extracted fragment: the three dedup keys
\* differ in the start date or in a trailing space of the company
RawKeyPool == {<<Str_Acme, Str_Eng, Str_2020>>,
               <<Str_Acme, Str_Eng, Str_2021>>,
               <<Str_AcmeSp, Str_Eng, Str_2020>>}

RawMergePool ==
    {[company |-> k[1], title |-> k[2], start_date |-> k[3],
      end_date |-> Str_Present,
      bullets |-> <<[isStr |-> TRUE, text |-> <<"-", " ", "a">>],
                    [isStr |-> TRUE, text |-> <<"b">>]>>] : k \in RawKeyPool}

ExtractedExperienceLists ==
    {FormatExperience(raw) : raw \in SeqUpTo(RawMergePool, MaxExp)}

MasterIds == {ExpId(1), ExpId(2)}

MasterEntries ==
    {[id |-> i, company |-> k[1], title |-> k[2], location |-> Str_Empty,
      start_date |-> k[3], end_date |-> Str_2022, current |-> FALSE,
      bullets |-> <<[id |-> BulletId(1), original |-> <<"c">>, keywords |-> <<>>,
                     metrics |-> <<>>, tailored_versions |-> <<>>]>>]
        : k \in RawKeyPool, i \in MasterIds}

MasterExperienceLists == SeqUpTo(MasterEntries, MaxExp)

EduEntries ==
    {[institution |-> Str_MIT, degree |-> d, field |-> f,
      graduation_date |-> Str_2020, gpa |-> Str_Empty, honors |-> <<>>,
      relevant_coursework |-> <<>>] : d \in {Str_BS, Str_MS}, f \in {Str_CS, Str_Eng}}

EducationLists == SeqUpTo(EduEntries, MaxEdu)

SkillNames == {Str_Python, Str_python, Str_SQL}
SkillLists == SeqUpTo(SkillNames, MaxSkills)

\* skills dicts: empty, one category only, or all four categories
SkillDicts ==
    {EmptyDict, "soft" :> <<Str_Git>>}
    \cup {"technical" :> l : l \in SkillLists}
    \cup {[c \in Range(Categories) |-> IF c = "technical" THEN l ELSE <<Str_Git>>]
            : l \in SkillLists}

ExtractedPersonalValues == {Str_Empty, Str_Sp, Str_TabNl, Str_Al}
MasterPersonalValues == {Str_Empty, Str_Bo}

\* personal dicts: the keys a dict has, name and summary taking every value
PersonalDicts(keysets, values) ==
    UNION {{[k \in ks |-> IF k = "name" THEN n
                           ELSE IF k = "summary" THEN sm ELSE Str_Empty]
              : n \in values, sm \in values} : ks \in keysets}

ExtractedPersonalDicts ==
    PersonalDicts({{}, {"name"}, {"name", "summary"}, PersonalFields},
                  ExtractedPersonalValues)

MasterPersonalDicts ==
    PersonalDicts({{}, {"name"}, {"name", "summary", "portfolio"},
                   PersonalFields \cup {"portfolio"}},
                  MasterPersonalValues)

\* the values of section k that the extracted fragment ranges over
ExtractedValues(k) ==
    CASE k = "personal" -> ExtractedPersonalDicts
      [] k = "experience" -> ExtractedExperienceLists
      [] k = "education" -> EducationLists
      [] k = "skills" -> SkillDicts

\* the values of section k that the master document ranges over
MasterValues(k) ==
    CASE k = "personal" -> MasterPersonalDicts
      [] k = "experience" -> MasterExperienceLists
      [] k = "education" -> EducationLists
      [] k = "skills" -> SkillDicts

\* the fixed value of a section that is not the one being varied
FixedExtracted(k) ==
    CASE k = "personal" -> [f \in PersonalFields |-> IF f = "name" THEN Str_Al ELSE Str_Empty]
      [] k = "experience" -> FormatExperience(<<[company |-> Str_Acme, title |-> Str_Eng,
                                                 start_date |-> Str_2021]>>)
      [] k = "education" -> <<>>
      [] k = "skills" -> [c \in Range(Categories) |-> <<Str_SQL>>]

FixedMaster(k) ==
    CASE k = "personal" -> [f \in PersonalFields \cup {"portfolio"} |-> Str_Bo]
      [] k = "experience" -> <<>>
      [] k = "education" -> <<>>
      [] k = "skills" -> [c \in Range(Categories) |-> <<Str_Git>>]

\* a document in which section focus is opt and the other sections are all
\* missing (others = FALSE) or all hold their fixed value (others = TRUE)
Document(focus, opt, others, fixed(_)) ==
    LET sec(k) == Section(k, IF k = focus THEN opt
                             ELSE IF others THEN <<fixed(k)>> ELSE <<>>)
    IN  sec("personal") @@ sec("experience") @@ sec("education") @@ sec("skills")

InitCall(e, m) ==
    /\ pc = "ready"
    /\ mode = ""
    /\ extracted = e
    /\ master = m
    /\ extractedBefore = e
    /\ masterBefore = m
    /\ result = NoResult
    /\ rawExperience = <<>>
    /\ formatted = NoResult
    /\ IdleReq /\ IdleWeb /\ IdleFile /\ IdleAux

Init ==
    \E focus \in Sections, others \in BOOLEAN :
        \E eo \in Opt(ExtractedValues(focus)), mo \in Opt(MasterValues(focus)) :
            InitCall(Document(focus, eo, others, FixedExtracted),
                     Document(focus, mo, others, FixedMaster))

\* merge_with_master(extracted, master, m): the returned document, and what
\* the two argument objects hold when the call returns
Call(m) ==
    /\ pc = "ready"
    /\ pc' = "done"
    /\ mode' = m
    /\ result' = MergeWithMaster(extracted, master, m)
    /\ master' = IF m = "replace" THEN master ELSE MasterAfter(master, result')
    /\ extracted' = extracted
    /\ UNCHANGED <<masterBefore, extractedBefore, rawExperience, formatted>>
    /\ UNCHANGED <<reqVars, auxVars, webVars, fileVars>>

Replace == Call("replace")
AppendMode == Call("append")
MergeMode == Call("merge")

Next == Replace \/ AppendMode \/ MergeMode

Spec == Init /\ [][Next]_vars

(***************************************************************************)
(* merge_with_master(P, P, "append"): both arguments hold the same valid   *)
(* profile (all four sections present).                                    *)
(***************************************************************************)
InitSelf ==
    \E focus \in Sections :
        \E v \in ExtractedValues(focus) \cup MasterValues(focus) :
            LET P == Document(focus, <<v>>, TRUE, FixedExtracted)
            IN  InitCall(P, P)

SpecSelf == InitSelf /\ [][AppendMode]_vars

(***************************************************************************)
(* _format_experience on its own.                                          *)
(***************************************************************************)
RawBulletItems ==
    {[isStr |-> FALSE, text |-> <<>>],
     [isStr |-> TRUE, text |-> <<" ", "-", " ", "a">>],
     [isStr |-> TRUE, text |-> <<"U+2022", " ", "b">>]}

RawEndDates == {Str_present, Str_PRESENT, Str_2022}

\* raw items that vary the current flag and the end date (either may be
\* missing), and raw items that vary the bullets
RawFormatPool ==
    {Section("current", c) @@ Section("end_date", d) @@
       [company |-> Str_Acme, title |-> Str_Eng, start_date |-> Str_2020]
        : c \in Opt(BOOLEAN), d \in Opt(RawEndDates)}
    \cup {[company |-> Str_Acme, end_date |-> Str_Present, bullets |-> b]
            : b \in SeqUpTo(RawBulletItems, MaxBullets)}

InitFormat ==
    /\ pc = "ready"
    /\ mode = ""
    /\ extracted = EmptyDict
    /\ master = EmptyDict
    /\ extractedBefore = EmptyDict
    /\ masterBefore = EmptyDict
    /\ result = NoResult
    /\ rawExperience \in SeqUpTo(RawFormatPool, MaxRaw)
    /\ formatted = NoResult
    /\ IdleReq /\ IdleWeb /\ IdleFile /\ IdleAux

\* _format_experience(rawExperience)
Format ==
    /\ pc = "ready"
    /\ pc' = "formatted"
    /\ formatted' = FormatExperience(rawExperience)
    /\ UNCHANGED <<mode, master, extracted, result, masterBefore, extractedBefore,
                   rawExperience>>
    /\ UNCHANGED <<reqVars, auxVars, webVars, fileVars>>

SpecFormat == InitFormat /\ [][Format]_vars

(***************************************************************************)
(* Properties.                                                             *)
(***************************************************************************)
Returned == pc = "done"
AppendOrMerge == pc = "done" /\ mode \in {"append", "merge"}

\* the experience / education list of a document, [] when the key is missing
ExperienceOf(doc) == Get(doc, "experience", <<>>)
EducationOf(doc) == Get(doc, "education", <<>>)

\* C1: merge_with_master leaves both inputs unchanged in every mode: after the
\* call master_data and extracted_data hold exactly what they held before it.
C1_InputsUnchanged ==
    Returned => (master = masterBefore /\ extracted = extractedBefore)

\* C2: for a valid profile P, merge_with_master(P, P, "append") returns a
\* profile equal to P.
C2_AppendSelfAddsNothing ==
    (Returned /\ mode = "append" /\ extractedBefore = masterBefore
       /\ Sections \subseteq DOMAIN masterBefore)
    => result = masterBefore

C2_Witness ==
    /\ Returned /\ mode = "append" /\ extractedBefore = masterBefore
    /\ Sections \subseteq DOMAIN masterBefore
    /\ Len(masterBefore["experience"]) = 1
    /\ SkillList(masterBefore, "technical") = <<Str_Python, Str_python>>
    /\ result = masterBefore

\* no two entries of a list carry the same id
DistinctIds(l) == \A i, j \in 1..Len(l) : l[i].id = l[j].id => i = j

\* the ids _format_experience gives: exp_001, exp_002, ... by position
FormatterIds(l) == \A i \in 1..Len(l) : l[i].id = ExpId(i)

\* C3: after append or merge, with pairwise distinct Position ids in master and
\* an extracted fragment numbered by _format_experience, the Position ids of
\* the result are pairwise distinct and so are the Bullet ids of each Position.
C3_IdsUnique ==
    (AppendOrMerge /\ DistinctIds(ExperienceOf(masterBefore))
       /\ FormatterIds(ExperienceOf(extractedBefore)))
    => /\ DistinctIds(ExperienceOf(result))
       /\ \A i \in 1..Len(ExperienceOf(result)) :
              DistinctIds(ExperienceOf(result)[i].bullets)

\* no two entries of a skill list are equal when compared case-insensitively
NoCaseDuplicates(l) ==
    \A i, j \in 1..Len(l) : Lower(l[i]) = Lower(l[j]) => i = j

\* every entry of kept is the first entry of seen with its lower-cased form
FirstSeenCasing(kept, seen) ==
    \A i \in 1..Len(kept) :
        \E j \in 1..Len(seen) :
            /\ seen[j] = kept[i]
            /\ \A h \in 1..(j - 1) : Lower(seen[h]) # Lower(kept[i])

\* the skills in the order the call meets them: the master's (not in replace
\* mode), then the extracted ones
SeenSkills(c) ==
    (IF mode = "replace" THEN <<>> ELSE SkillList(masterBefore, c))
    \o SkillList(extractedBefore, c)

\* C4: in every mode, starting from a master whose skill categories are
\* case-insensitively duplicate-free, each skill category of the result is
\* case-insensitively duplicate-free and keeps the first-seen casing.
C4_SkillsUnique ==
    (Returned /\ \A c \in Range(Categories) : NoCaseDuplicates(SkillList(masterBefore, c)))
    => \A c \in Range(Categories) :
           /\ NoCaseDuplicates(SkillList(result, c))
           /\ FirstSeenCasing(SkillList(result, c), SeenSkills(c))

\* C5: in replace mode the result is determined by the extracted fragment
\* alone: experience, education and the four skill lists are the fragment's
\* ([] when missing), the personal fields are the fragment's ("" when
\* missing), and nothing of the master shows in the result.
C5_ReplaceIgnoresMaster ==
    (Returned /\ mode = "replace")
    => /\ Sections \subseteq DOMAIN result
       /\ DOMAIN result["skills"] = Range(Categories)
       /\ DOMAIN result["personal"] = PersonalFields \cup {"portfolio"}
       /\ result["experience"] = ExperienceOf(extractedBefore)
       /\ result["education"] = EducationOf(extractedBefore)
       /\ \A c \in Range(Categories) :
              result["skills"][c] = SkillList(extractedBefore, c)
       /\ \A f \in PersonalFields :
              result["personal"][f] =
                  IF "personal" \in DOMAIN extractedBefore
                     /\ f \in DOMAIN extractedBefore["personal"]
                  THEN extractedBefore["personal"][f] ELSE Str_Empty
       /\ result["personal"]["portfolio"] = Str_Empty

C5_Witness ==
    /\ Returned /\ mode = "replace"
    /\ "experience" \notin DOMAIN extractedBefore
    /\ "experience" \in DOMAIN masterBefore
    /\ Len(masterBefore["experience"]) = 2
    /\ SkillList(masterBefore, "certifications") # <<>>
    /\ SkillList(extractedBefore, "certifications") # <<>>

\* entry e has the (company, title, start_date) triple of no entry of list l
NoSameTriple(e, l) ==
    \A j \in 1..Len(l) :
        ~(l[j].company = e.company /\ l[j].title = e.title
          /\ l[j].start_date = e.start_date)

\* the entries of list ee that have the triple of no entry of list me
RECURSIVE NewEntries(_, _)
NewEntries(ee, me) ==
    IF ee = <<>> THEN <<>>
    ELSE (IF NoSameTriple(Head(ee), me) THEN <<Head(ee)>> ELSE <<>>)
         \o NewEntries(Tail(ee), me)

\* C6: in append and merge modes an extracted experience entry is added iff no
\* master entry has exactly its (company, title, start_date) triple, and each
\* added entry is inserted at index 0: the result is the added entries, the
\* last added first, followed by the master's entries.
C6_ExperienceAdded ==
    AppendOrMerge
    => ExperienceOf(result) =
           Reverse(NewEntries(ExperienceOf(extractedBefore), ExperienceOf(masterBefore)))
           \o ExperienceOf(masterBefore)

\* an entry differing from a master entry only outside the triple is dropped,
\* one differing by a trailing space in the company is added, at index 0
C6_Witness ==
    /\ AppendOrMerge
    /\ Len(ExperienceOf(masterBefore)) = 1
    /\ Len(ExperienceOf(extractedBefore)) = 2
    /\ masterBefore["experience"][1].company = Str_Acme
    /\ masterBefore["experience"][1].start_date = Str_2020
    /\ extractedBefore["experience"][1].company = Str_Acme
    /\ extractedBefore["experience"][1].start_date = Str_2020
    /\ extractedBefore["experience"][1].end_date # masterBefore["experience"][1].end_date
    /\ extractedBefore["experience"][2].company = Str_AcmeSp
    /\ Len(result["experience"]) = 2
    /\ result["experience"][1] = extractedBefore["experience"][2]

\* C7: in merge mode each personal field of the result is the extracted value
\* when that value is non-empty after trimming whitespace, and the master's
\* value (or missing, when the master has none) otherwise.
C7_PersonalMerge ==
    (Returned /\ mode = "merge")
    => LET ep == Get(extractedBefore, "personal", EmptyDict)
           mp == Get(masterBefore, "personal", EmptyDict)
           rp == Get(result, "personal", EmptyDict)
           taken == {f \in DOMAIN ep : \E i \in 1..Len(ep[f]) : ep[f][i] \notin Whitespace}
       IN  /\ DOMAIN rp = (DOMAIN mp) \cup taken
           /\ \A f \in DOMAIN rp : rp[f] = IF f \in taken THEN ep[f] ELSE mp[f]

C7_Witness ==
    /\ Returned /\ mode = "merge"
    /\ "personal" \in DOMAIN extractedBefore /\ "personal" \in DOMAIN masterBefore
    /\ Get(extractedBefore["personal"], "name", Str_Empty) = Str_TabNl
    /\ Get(extractedBefore["personal"], "summary", Str_Empty) = Str_Al
    /\ Get(masterBefore["personal"], "name", Str_Empty) = Str_Bo
    /\ Get(masterBefore["personal"], "summary", Str_Empty) = Str_Bo
    /\ result["personal"]["name"] = Str_Bo
    /\ result["personal"]["summary"] = Str_Al

\* C8: in every mode the returned document has all of personal, experience,
\* education and skills.
C8_AllSectionsPresent ==
    Returned => Sections \subseteq DOMAIN result

\* C9: merge mode and append mode, each run on the same master and extracted
\* fragment, give equal experience, education and skills sections.
C9_MergeEqualsAppend ==
    (Returned /\ mode = "merge")
    => LET a == AppendResult(extractedBefore, masterBefore)
       IN  \A k \in {"experience", "education", "skills"} :
               /\ k \in DOMAIN result <=> k \in DOMAIN a
               /\ k \in DOMAIN a => result[k] = a[k]

\* C10: every formatted entry whose source end_date is "present" in any
\* letter case has current = TRUE, whatever the source gave for current.
C10_PresentForcesCurrent ==
    pc = "formatted"
    => \A i \in 1..Len(rawExperience) :
           ("end_date" \in DOMAIN rawExperience[i]
              /\ Lower(rawExperience[i]["end_date"]) = Str_present)
           => formatted[i].current = TRUE

C10_Witness ==
    /\ pc = "formatted"
    /\ Len(rawExperience) = 2
    /\ Get(rawExperience[1], "current", TRUE) = FALSE
    /\ Get(rawExperience[1], "end_date", Str_Empty) = Str_PRESENT
    /\ "current" \notin DOMAIN rawExperience[2]
    /\ Get(rawExperience[2], "end_date", Str_Empty) = Str_present
    /\ formatted[1].current = TRUE
    /\ formatted[2].current = TRUE

(***************************************************************************)
(* validate_file (src/src/resume_parser.py).                               *)
(***************************************************************************)
Str_pdf == <<"p", "d", "f">>
Str_docx == <<"d", "o", "c", "x">>
Str_txt == <<"t", "x", "t">>
Str_json == <<"j", "s", "o", "n">>
Str_rtf == <<"r", "t", "f">>
Str_cv == <<"c", "v">>
Str_Dot == <<".">>

ALLOWED_EXTENSIONS == {Str_pdf, Str_docx, Str_txt, Str_json}
MAX_FILE_SIZE == 5 * 1024 * 1024

\* filename.rsplit('.', 1)[-1].lower() if '.' in filename else ''
FileExtension(name) ==
    IF \E i \in 1..Len(name) : name[i] = "."
    THEN LET dot == CHOOSE i \in 1..Len(name) :
                        /\ name[i] = "."
                        /\ \A j \in (i + 1)..Len(name) : name[j] # "."
         IN  Lower(SubSeq(name, dot + 1, Len(name)))
    ELSE Str_Empty

\* FileTooLarge with the limit itself rejected
FileTooLarge_Inclusive(size) == size >= MAX_FILE_SIZE

\* the test of line 61
FileTooLarge(size) == size > MAX_FILE_SIZE

VALID_MIMES == {"application/pdf",
                "application/vnd.openxmlformats-officedocument.wordprocessingml.document",
                "text/plain", "application/json"}

\* validate_file(name, size), where mime is the answer of
\* mimetypes.guess_type(name); the pair returned is [ok, msg]
ValidateFile(name, size, mime) ==
    IF name = Str_Empty THEN [ok |-> FALSE, msg |-> "No file provided"]
    ELSE IF FileExtension(name) \notin ALLOWED_EXTENSIONS
    THEN [ok |-> FALSE, msg |-> "Please upload a PDF, DOCX, TXT, or JSON file"]
    ELSE IF FileTooLarge(size)
    THEN [ok |-> FALSE, msg |-> "File exceeds 5MB limit"]
    ELSE IF mime # <<>> /\ mime[1] \notin VALID_MIMES
    THEN [ok |-> TRUE, msg |-> ""]
    ELSE [ok |-> TRUE, msg |-> ""]

Filenames ==
    {Str_Empty, Str_pdf, Str_cv, Str_cv \o Str_Dot,
     Str_Dot \o Str_json,
     Str_cv \o Str_Dot \o Str_pdf,
     Str_cv \o Str_Dot \o <<"P", "D", "F">>,
     Str_cv \o Str_Dot \o <<"D", "o", "c", "x">>,
     Str_cv \o Str_Dot \o Str_txt,
     Str_cv \o Str_Dot \o Str_json,
     Str_cv \o Str_Dot \o Str_rtf,
     Str_cv \o Str_Dot \o Str_rtf \o Str_Dot \o Str_pdf,
     Str_cv \o Str_Dot \o Str_pdf \o Str_Dot \o Str_rtf}

FileSizes == {0, MAX_FILE_SIZE - 1, MAX_FILE_SIZE, MAX_FILE_SIZE + 1}

MimeAnswers == {<<>>, <<"application/pdf">>, <<"application/rtf">>}

InitValidate ==
    /\ pc = "ready"
    /\ filename \in Filenames
    /\ file_size \in FileSizes
    /\ mime_type \in MimeAnswers
    /\ use_ai = FALSE
    /\ resume_text = <<>>
    /\ env = <<>>
    /\ IdleMerge /\ IdleWeb /\ IdleFile /\ IdleAux

\* resume_parser.validate_file(filename, file_size)
Validate ==
    /\ pc = "ready"
    /\ pc' = "validated"
    /\ validation' = ValidateFile(filename, file_size, mime_type)
    /\ UNCHANGED <<upload_dir, session, flashed, calls, response, structured>>
    /\ UNCHANGED <<mergeVars, reqVars, auxVars, fileVars>>

SpecValidate == InitValidate /\ [][Validate]_vars

\* the name has a '.', and the text after its last '.' is, lower-cased, ext
HasSuffix(name, ext) ==
    \E i \in 1..Len(name) :
        /\ name[i] = "."
        /\ \A j \in (i + 1)..Len(name) : name[j] # "."
        /\ Len(name) - i = Len(ext)
        /\ \A j \in 1..Len(ext) : LowerChar(name[i + j]) = ext[j]

\* C11: validate_file returns ok exactly when the filename is non-empty, the
\* lower-cased suffix after its last '.' is pdf, docx, txt or json, and the
\* size is at most 5*1024*1024 bytes, whatever the guessed MIME type; the
\* call changes nothing else.
C11_ValidateFile ==
    pc = "validated"
    => /\ validation.ok <=>
              (/\ Len(filename) > 0
               /\ \E ext \in {Str_pdf, Str_docx, Str_txt, Str_json} : HasSuffix(filename, ext)
               /\ file_size <= 5242880)
       /\ upload_dir = {} /\ session = <<>> /\ flashed = <<>> /\ calls = <<>>

C11_Witness ==
    /\ pc = "validated"
    /\ filename = Str_cv \o Str_Dot \o Str_rtf \o Str_Dot \o Str_pdf
    /\ file_size = 5242880
    /\ mime_type = <<"application/rtf">>
    /\ validation.ok

(***************************************************************************)
(* _regex_extract_personal (src/src/resume_structurer.py:116-150).         *)
(***************************************************************************)
Text_Jane ==
    <<"J", "a", "n", "e", " ", "D", "o", "e", "\n", "j", "a", "n", "e", "@",
     "x", ".", "c", "o", "m", "\n", "(", "5", "5", "5", ")", " ", "1", "2",
     "3", "-", "4", "5", "6", "7", "\n", "l", "i", "n", "k", "e", "d", "i",
     "n", ".", "c", "o", "m", "/", "i", "n", "/", "j", "a", "n", "e", "d",
     "o", "e">>
Text_Street ==
    <<"1", " ", "M", "a", "i", "n", " ", "S", "t", "\n", "\n", " ", " ",
     "\n", "B", "o", "b", "\n", "x">>
Text_Call ==
    <<"c", "a", "l", "l", " ", "5", "5", "5", "1", "2", "3", "4", "5", "6",
     "7", " ", "n", "o", "w", " ", "a", ".", "b", "@", "c", ".", "d", "-",
     "e", ".", "f", "_", "g", ".", "h", "!">>
Text_Links ==
    <<"a", "@", "b", "\n", "5", "5", "5", "-", "1", "2", "3", "4", "\n", "L",
     "i", "n", "k", "e", "d", "I", "n", ".", "c", "o", "m", "/", "i", "n",
     "/", "-", "x", " ", "y">>
Str_linkedinPrefix ==
    <<"l", "i", "n", "k", "e", "d", "i", "n", ".", "c", "o", "m", "/", "i",
     "n", "/">>

\* the characters \w matches, and the character classes of the patterns
WordChars == Range(UpperLetters) \cup Range(LowerLetters) \cup Range(DigitChars) \cup {"_"}
EmailChars == WordChars \cup {".", "-"}
PhoneSeparators == {"-", "."} \cup Whitespace
LinkedinChars == WordChars \cup {"-"}

\* the last index of the longest run of characters of class that starts at
\* index s of t (s - 1 when there is none)
RECURSIVE RunEnd(_, _, _)
RunEnd(t, s, class) ==
    IF s <= Len(t) /\ t[s] \in class THEN RunEnd(t, s + 1, class) ELSE s - 1

\* the last index of the match of [\w\.-]+@[\w\.-]+\.\w+ that starts at index
\* s of t, 0 when there is none: the first group is the whole run up to the
\* "@", the second group is cut at the last "." that a word character follows
EmailEnd(t, s) ==
    LET e1 == RunEnd(t, s, EmailChars)
        f == RunEnd(t, e1 + 2, EmailChars)
        dots == {q \in (e1 + 3)..f : t[q] = "." /\ q + 1 <= Len(t) /\ t[q + 1] \in WordChars}
    IN  IF e1 < s \/ e1 + 1 > Len(t) THEN 0
        ELSE IF t[e1 + 1] # "@" \/ dots = {} THEN 0
        ELSE RunEnd(t, (CHOOSE q \in dots : \A r \in dots : r <= q) + 1, WordChars)

\* t[i..i+n-1] are n digits
DigitsAt(t, i, n) == i + n - 1 <= Len(t) /\ \A j \in i..(i + n - 1) : t[j] \in Range(DigitChars)

\* the index after an optional character of class at index i
SkipOptional(t, i, class) == IF i <= Len(t) /\ t[i] \in class THEN i + 1 ELSE i

\* the last index of the match of [\(]?\d{3}[\)]?[-.\s]?\d{3}[-.\s]?\d{4}
\* that starts at index s of t, 0 when there is none
PhoneEnd(t, s) ==
    LET i1 == SkipOptional(t, s, {"("})
        i2 == SkipOptional(t, i1 + 3, {")"})
        i3 == SkipOptional(t, i2, PhoneSeparators)
        i4 == SkipOptional(t, i3 + 3, PhoneSeparators)
    IN  IF DigitsAt(t, i1, 3) /\ DigitsAt(t, i3, 3) /\ DigitsAt(t, i4, 4)
        THEN i4 + 3 ELSE 0

\* the last index of the match of linkedin\.com/in/[\w-]+ (IGNORECASE) that
\* starts at index s of t, 0 when there is none
LinkedinEnd(t, s) ==
    LET n == Len(Str_linkedinPrefix)
        e == RunEnd(t, s + n, LinkedinChars)
    IN  IF s + n - 1 <= Len(t) /\ Lower(SubSeq(t, s, s + n - 1)) = Str_linkedinPrefix
           /\ e >= s + n
        THEN e ELSE 0

\* re.search, ends[s] being the end of the pattern's match at index s (0 when
\* it does not match there): the match at the leftmost index where there is
\* one, "" when there is none (result[...] keeps its initial "")
Search(t, ends) ==
    IF \E s \in 1..Len(t) : ends[s] > 0
    THEN LET s == CHOOSE i \in 1..Len(t) :
                      ends[i] > 0 /\ \A j \in 1..(i - 1) : ends[j] = 0
         IN  SubSeq(t, s, ends[s])
    ELSE Str_Empty

\* str.split('\n')
RECURSIVE SplitLines(_)
SplitLines(t) ==
    IF \E i \in 1..Len(t) : t[i] = "\n"
    THEN LET i == CHOOSE k \in 1..Len(t) : t[k] = "\n" /\ \A j \in 1..(k - 1) : t[j] # "\n"
         IN  <<SubSeq(t, 1, i - 1)>> \o SplitLines(SubSeq(t, i + 1, Len(t)))
    ELSE <<t>>

\* the test of line 146 on a stripped line
IsNameLine(line) ==
    /\ line # Str_Empty
    /\ Len(line) < 50
    /\ \A i \in 1..Len(line) : line[i] # "@"
    /\ line[1] \notin Range(DigitChars)

\* lines 143-148: the first of the first five lines that passes the test
RegexName(text) ==
    LET lines == SplitLines(Strip(text))
        first == SubSeq(lines, 1, IF Len(lines) < 5 THEN Len(lines) ELSE 5)
        hits == {i \in 1..Len(first) : IsNameLine(Strip(first[i]))}
    IN  IF hits = {} THEN Str_Empty
        ELSE Strip(first[CHOOSE i \in hits : \A j \in hits : i <= j])

RegexExtractPersonal(text) ==
    [name |-> RegexName(text),
     email |-> Search(text, [s \in 1..Len(text) |-> EmailEnd(text, s)]),
     phone |-> Search(text, [s \in 1..Len(text) |-> PhoneEnd(text, s)]),
     location |-> Str_Empty,
     linkedin |-> Search(text, [s \in 1..Len(text) |-> LinkedinEnd(text, s)]),
     summary |-> Str_Empty]

(***************************************************************************)
(* structure_resume and the four section extractors.  env.probe is the     *)
(* answer of _check_ollama; env.outcome[sec] is what the model call of     *)
(* section sec does: "ok" (a response holding the value env.llm[sec]),     *)
(* "empty" (a response holding {} or []), "unparsable" (a response with no *)
(* JSON in it) or "raises" (_call_ollama raises RuntimeError).             *)
(***************************************************************************)
SectionOrder == <<"personal", "experience", "education", "skills">>
Outcomes == {"ok", "empty", "unparsable", "raises"}

\* the value json.loads gives for the response of section sec, as <<v>>;
\* <<>> when the call raised or no JSON was found in the response
Parsed(e, sec) ==
    CASE e.outcome[sec] = "ok" -> <<e.llm[sec]>>
      [] e.outcome[sec] = "empty" -> <<EmptyDict>>
      [] OTHER -> <<>>

\* extract_personal_info, lines 99-114: `if data` fails on None and on {}
ExtractPersonalInfo(text, e) ==
    LET data == Parsed(e, "personal")
    IN  IF data # <<>> /\ data[1] # EmptyDict
        THEN [f \in PersonalFields |-> Get(data[1], f, Str_Empty)]
        ELSE RegexExtractPersonal(text)

\* extract_experience, lines 174-186
ExtractExperience(text, e) ==
    LET data == Parsed(e, "experience")
    IN  IF data # <<>> THEN FormatExperience(data[1]) ELSE <<>>

\* _format_education, lines 253-268
FormatEducation(education_list) ==
    [i \in 1..Len(education_list) |->
        [institution |-> Get(education_list[i], "institution", Str_Empty),
         degree |-> Get(education_list[i], "degree", Str_Empty),
         field |-> Get(education_list[i], "field", Str_Empty),
         graduation_date |-> Get(education_list[i], "graduation_date", Str_Empty),
         gpa |-> Get(education_list[i], "gpa", Str_Empty),
         honors |-> Get(education_list[i], "honors", <<>>),
         relevant_coursework |-> Get(education_list[i], "relevant_coursework", <<>>)]]

\* extract_education, lines 240-251
ExtractEducation(text, e) ==
    LET data == Parsed(e, "education")
    IN  IF data # <<>> THEN FormatEducation(data[1]) ELSE <<>>

EmptySkills == [c \in Range(Categories) |-> <<>>]

\* extract_skills, lines 286-304
ExtractSkills(text, e) ==
    LET data == Parsed(e, "skills")
    IN  IF data # <<>> /\ data[1] # EmptyDict
        THEN [c \in Range(Categories) |-> Get(data[1], c, <<>>)]
        ELSE EmptySkills

\* the document of lines 316-321, 327-332 and 358-363
BasicExtraction(text) ==
    [personal |-> RegexExtractPersonal(text),
     experience |-> <<>>,
     education |-> <<>>,
     skills |-> EmptySkills,
     raw_text |-> text]

Warn_Disabled == "AI structuring disabled. Only basic extraction performed."
Warn_NoOllama == "Ollama not available. Only basic extraction performed."
Warn_Failed == "AI extraction failed: "

ModelCalls == [i \in 1..Len(SectionOrder) |-> "chat " \o SectionOrder[i]]

\* StructureResume with the liveness probe left out
StructureResume_NoProbe(text, ai, e) ==
    IF ~ai
    THEN [data |-> BasicExtraction(text), warning |-> <<Warn_Disabled>>, calls |-> <<>>]
    ELSE [data |-> [personal |-> ExtractPersonalInfo(text, e),
                    experience |-> ExtractExperience(text, e),
                    education |-> ExtractEducation(text, e),
                    skills |-> ExtractSkills(text, e)],
          warning |-> <<>>,
          calls |-> ModelCalls]

\* StructureResume with the extractors letting a raising model call through
\* to the handler of line 355
StructureResume_NoSectionCatch(text, ai, e) ==
    IF ~ai
    THEN [data |-> BasicExtraction(text), warning |-> <<Warn_Disabled>>, calls |-> <<>>]
    ELSE IF ~e.probe
    THEN [data |-> BasicExtraction(text), warning |-> <<Warn_NoOllama>>,
          calls |-> <<"ollama list">>]
    ELSE IF \E sec \in Range(SectionOrder) : e.outcome[sec] = "raises"
    THEN [data |-> BasicExtraction(text), warning |-> <<Warn_Failed>>,
          calls |-> <<"ollama list">> \o ModelCalls]
    ELSE [data |-> [personal |-> ExtractPersonalInfo(text, e),
                    experience |-> ExtractExperience(text, e),
                    education |-> ExtractEducation(text, e),
                    skills |-> ExtractSkills(text, e)],
          warning |-> <<>>,
          calls |-> <<"ollama list">> \o ModelCalls]

\* structure_resume(text, use_ai): the document and the warning returned (<<>>
\* is None) and the calls made.  Every extractor catches Exception itself, so
\* the handler of line 355 is never entered and nothing is raised.
StructureResume(text, ai, e) ==
    IF ~ai
    THEN [data |-> BasicExtraction(text), warning |-> <<Warn_Disabled>>, calls |-> <<>>]
    ELSE IF ~e.probe
    THEN [data |-> BasicExtraction(text), warning |-> <<Warn_NoOllama>>,
          calls |-> <<"ollama list">>]
    ELSE [data |-> [personal |-> ExtractPersonalInfo(text, e),
                    experience |-> ExtractExperience(text, e),
                    education |-> ExtractEducation(text, e),
                    skills |-> ExtractSkills(text, e)],
          warning |-> <<>>,
          calls |-> <<"ollama list">> \o ModelCalls]

\* two answers of the model
LLM_Full ==
    [personal |-> [f \in PersonalFields |-> IF f = "name" THEN Str_Al ELSE Str_Empty],
     experience |-> <<[company |-> Str_Acme, title |-> Str_Eng, start_date |-> Str_2020,
                       end_date |-> Str_Present, current |-> FALSE,
                       bullets |-> <<[isStr |-> TRUE, text |-> <<"-", " ", "a">>]>>]>>,
     education |-> <<[institution |-> Str_MIT, degree |-> Str_BS]>>,
     skills |-> [technical |-> <<Str_Python>>, soft |-> <<>>, tools |-> <<Str_Git>>]]

LLM_Partial ==
    [personal |-> [name |-> Str_Bo],
     experience |-> <<[company |-> Str_Acme]>>,
     education |-> <<[degree |-> Str_MS]>>,
     skills |-> [certifications |-> <<Str_SQL>>]]

StructureEnvs ==
    [probe : BOOLEAN, outcome : [Range(SectionOrder) -> Outcomes],
     llm : {LLM_Full, LLM_Partial}]

InitStructure ==
    /\ pc = "ready"
    /\ filename = <<>>
    /\ file_size = 0
    /\ mime_type = <<>>
    /\ use_ai \in BOOLEAN
    /\ resume_text \in {Str_Empty, Text_Jane, Text_Street}
    /\ env \in StructureEnvs
    /\ IdleMerge /\ IdleWeb /\ IdleFile /\ IdleAux

\* resume_structurer.structure_resume(resume_text, use_ai)
Structure ==
    /\ pc = "ready"
    /\ pc' = "structured"
    /\ LET r == StructureResume(resume_text, use_ai, env)
       IN  /\ structured' = [data |-> r.data, warning |-> r.warning]
           /\ calls' = calls \o r.calls
    /\ UNCHANGED <<validation, upload_dir, session, flashed, response>>
    /\ UNCHANGED <<mergeVars, reqVars, auxVars, fileVars>>

SpecStructure == InitStructure /\ [][Structure]_vars

\* the sections whose model call raised or whose response did not parse
FailedSections == {sec \in Range(SectionOrder) : env.outcome[sec] \in {"raises", "unparsable"}}

\* C13: structure_resume never raises, and whenever anything failed during
\* structuring (AI disabled, backend unreachable, a model call raising, a
\* response failing to parse) the warning returned is not None.
C13_FailureGivesWarning ==
    pc = "structured"
    => ((~use_ai \/ ~env.probe \/ FailedSections # {}) => structured.warning # <<>>)

\* C14: with use_ai false or the liveness probe failing, structure_resume
\* makes no model call, and returns empty experience, education and skill
\* lists, the personal block of the regex pass, raw_text equal to the input and
\* a warning; when model calls are made, the probe comes before them.
C14_NoModelCallWithoutBackend ==
    pc = "structured"
    => /\ (~use_ai \/ ~env.probe)
          => /\ \A i \in 1..Len(calls) : calls[i] \notin Range(ModelCalls)
             /\ structured.data["experience"] = <<>>
             /\ structured.data["education"] = <<>>
             /\ \A c \in Range(Categories) : structured.data["skills"][c] = <<>>
             /\ structured.data["personal"] = RegexExtractPersonal(resume_text)
             /\ "raw_text" \in DOMAIN structured.data
             /\ structured.data["raw_text"] = resume_text
             /\ structured.warning # <<>>
       /\ \A i \in 1..Len(calls) :
             calls[i] \in Range(ModelCalls)
             => \E j \in 1..(i - 1) : calls[j] = "ollama list"

C14_Witness ==
    /\ pc = "structured"
    /\ use_ai /\ ~env.probe
    /\ resume_text = Text_Jane
    /\ env.llm = LLM_Full
    /\ \A sec \in Range(SectionOrder) : env.outcome[sec] = "ok"
    /\ calls = <<"ollama list">>
    /\ structured.data["personal"]["name"] = <<"J", "a", "n", "e", " ", "D", "o", "e">>

\* what a section holds when its model call answered env.llm
AnsweredSection(sec) ==
    CASE sec = "personal" ->
             [f \in PersonalFields |->
                 IF f \in DOMAIN env.llm["personal"] THEN env.llm["personal"][f] ELSE Str_Empty]
      [] sec = "experience" -> FormatExperience(env.llm["experience"])
      [] sec = "education" -> FormatEducation(env.llm["education"])
      [] sec = "skills" ->
             [c \in Range(Categories) |->
                 IF c \in DOMAIN env.llm["skills"] THEN env.llm["skills"][c] ELSE <<>>]

\* the empty default of a section
EmptySection(sec) ==
    CASE sec = "personal" -> [f \in PersonalFields |-> Str_Empty]
      [] sec = "experience" -> <<>>
      [] sec = "education" -> <<>>
      [] sec = "skills" -> [c \in Range(Categories) |-> <<>>]

\* AI enabled, backend available, section bad failed and the other three
\* answered
OnlySectionFailed(bad) ==
    /\ pc = "structured" /\ use_ai /\ env.probe
    /\ FailedSections = {bad}
    /\ \A sec \in Range(SectionOrder) \ {bad} : env.outcome[sec] = "ok"

\* C15 as stated: when exactly one section fails, that section is its empty
\* default (personal: all fields empty) and the other three are what the
\* model answered.
C15_FailedSectionIsEmpty ==
    \A bad \in Range(SectionOrder) :
        OnlySectionFailed(bad)
        => /\ structured.data[bad] = EmptySection(bad)
           /\ \A sec \in Range(SectionOrder) \ {bad} :
                  structured.data[sec] = AnsweredSection(sec)

\* C15 as amended: a failed personal section holds the result of the regex
\* pass over the text; a failed experience, education or skills section is
\* its empty default; the other three are what the model answered.
C15_FailedSectionFallsBack ==
    \A bad \in Range(SectionOrder) :
        OnlySectionFailed(bad)
        => /\ structured.data[bad] =
                  IF bad = "personal" THEN RegexExtractPersonal(resume_text)
                  ELSE EmptySection(bad)
           /\ \A sec \in Range(SectionOrder) \ {bad} :
                  structured.data[sec] = AnsweredSection(sec)

C15_Witness ==
    /\ OnlySectionFailed("personal")
    /\ env.outcome["personal"] = "raises"
    /\ resume_text = Text_Jane
    /\ env.llm = LLM_Full
    /\ structured.data["personal"]["name"] = <<"J", "a", "n", "e", " ", "D", "o", "e">>
    /\ Len(structured.data["experience"]) = 1

(***************************************************************************)
(* The upload handler of app.py.  The request is filename, file_size and   *)
(* use_ai; resume_text is the text the uploaded file holds.  env adds to   *)
(* the fields read by StructureResume:                                     *)
(*   posted   whether the form has a resume_file part                      *)
(*   content  what the file holds: "text" or "blank" (no extractable text: *)
(*            image-only pages, an empty document, only whitespace); for a *)
(*            .json file "resume" (an object with the four sections),      *)
(*            "partial" (the object {}), "names" (the JSON string          *)
(*            "personal experience education skills") or "invalid"         *)
(*   backend  whether the PDF/DOCX libraries were importable               *)
(*   unlink   whether Path.unlink succeeds in cleanup_temp_file            *)
(* The names uploaded are ones secure_filename leaves as they are.         *)
(***************************************************************************)
Msg_NoFile == "No file selected."
Msg_NoText == "Could not extract text (may be image-based or protected)"
Msg_NoDocx == "DOCX support not available. Install python-docx."
Msg_EmptyDoc == "Document appears to be empty"
Msg_Encoding == "Could not determine file encoding"
Msg_BadJson == "Invalid JSON format: "
Msg_Unsupported == "Unsupported file format: "
Msg_Missing == "JSON loaded, but missing sections: personal, experience, education, skills"
Msg_Processing == "Error processing file: "

\* the document held by an uploaded .json resume
JsonResume ==
    [personal |-> [name |-> Str_Al],
     experience |-> <<>>,
     education |-> <<>>,
     skills |-> [technical |-> <<Str_SQL>>]]

\* json.dumps(data, indent=2) of the file's value, where the handler reads it
JsonText(e) == IF e.content = "partial" THEN <<"{", "}">> ELSE Str_Empty

\* resume_parser.extract_text(filepath): the text and the error (<<>> is None)
ExtractText(ext, text, e) ==
    CASE ext = Str_pdf ->
             IF e.backend = "unavailable" \/ Strip(text) = Str_Empty
             THEN [text |-> Str_Empty, error |-> <<Msg_NoText>>]
             ELSE [text |-> Strip(text), error |-> <<>>]
      [] ext = Str_docx ->
             IF e.backend = "unavailable"
             THEN [text |-> Str_Empty, error |-> <<Msg_NoDocx>>]
             ELSE IF Strip(text) = Str_Empty
             THEN [text |-> Str_Empty, error |-> <<Msg_EmptyDoc>>]
             ELSE [text |-> Strip(text), error |-> <<>>]
      [] ext = Str_txt ->
             IF Strip(text) = Str_Empty
             THEN [text |-> Str_Empty, error |-> <<Msg_Encoding>>]
             ELSE [text |-> Strip(text), error |-> <<>>]
      [] ext = Str_json ->
             IF e.content = "invalid"
             THEN [text |-> Str_Empty, error |-> <<Msg_BadJson>>]
             ELSE [text |-> JsonText(e), error |-> <<>>]
      [] OTHER -> [text |-> Str_Empty, error |-> <<Msg_Unsupported>>]

\* resume_parser.parse_json_resume(filepath): the kind of value loaded ("none"
\* is None), the value where it is an object, and the error (<<>> is None)
ParseJsonResume(e) ==
    CASE e.content = "resume" -> [kind |-> "dict", value |-> JsonResume, error |-> <<>>]
      [] e.content = "partial" -> [kind |-> "dict", value |-> EmptyDict, error |-> <<Msg_Missing>>]
      [] e.content = "names" -> [kind |-> "str", value |-> EmptyDict, error |-> <<>>]
      [] OTHER -> [kind |-> "none", value |-> EmptyDict, error |-> <<Msg_BadJson>>]

\* resume_parser.cleanup_temp_file(filepath) on the upload directory
CleanupTempFile(dir, name, e) == IF e.unlink THEN dir \ {name} ELSE dir

\* lines 444-451: clean up, fill the session, go to the preview
FinishUpload(dir, name, data, error, made, e) ==
    [dir |-> CleanupTempFile(dir, name, e),
     session |-> [extracted_resume |-> data, extraction_error |-> error],
     flashed |-> <<>>,
     calls |-> made \o <<"cleanup_temp_file">>,
     response |-> "redirect upload_preview"]

\* lines 436-439 and 453-455: flash and go back to the form
AbortUpload(dir, msg, made) ==
    [dir |-> dir, session |-> <<>>, flashed |-> <<msg>>, calls |-> made,
     response |-> "redirect upload"]

\* lines 406-455, the file being valid: what the handler leaves in the upload
\* directory and the session, what it flashed and called, and its response
ProcessUpload(name, ai, text, e) ==
    LET dir == {name}
        ext == FileExtension(name)
        saved == <<"validate_file", "save">>
    IN  IF ext = Str_json
        THEN LET p == ParseJsonResume(e)
                 parsed == saved \o <<"parse_json_resume">>
             IN  IF p.kind = "str" /\ p.error = <<>>
                 THEN \* parsed_data.get raises AttributeError
                      AbortUpload(dir, Msg_Processing, parsed)
                 ELSE IF p.kind = "dict" /\ p.value # EmptyDict /\ p.error = <<>>
                 THEN FinishUpload(dir, name,
                          [personal |-> Get(p.value, "personal", EmptyDict),
                           experience |-> Get(p.value, "experience", <<>>),
                           education |-> Get(p.value, "education", <<>>),
                           skills |-> Get(p.value, "skills", EmptyDict)],
                          <<>>, parsed, e)
                 ELSE LET x == ExtractText(ext, text, e)
                          r == StructureResume(x.text, ai, e)
                      IN  FinishUpload(dir, name, r.data, r.warning,
                              parsed \o <<"extract_text", "structure_resume">> \o r.calls, e)
        ELSE LET x == ExtractText(ext, text, e)
                 extracted_ == saved \o <<"extract_text">>
             IN  IF x.error # <<>> /\ x.text = Str_Empty
                 THEN AbortUpload(CleanupTempFile(dir, name, e), x.error[1],
                          extracted_ \o <<"cleanup_temp_file">>)
                 ELSE LET r == StructureResume(x.text, ai, e)
                      IN  FinishUpload(dir, name, r.data, r.warning,
                              extracted_ \o <<"structure_resume">> \o r.calls, e)

\* UploadHandler saving the file before it validates it
UploadHandler_SaveFirst(name, size, ai, text, e) ==
    IF ~e.posted \/ name = Str_Empty
    THEN AbortUpload({}, Msg_NoFile, <<>>)
    ELSE LET v == ValidateFile(name, size, <<>>)
         IN  IF ~v.ok THEN AbortUpload({name}, v.msg, <<"save", "validate_file">>)
             ELSE ProcessUpload(name, ai, text, e)

\* upload(), POST, lines 383-455
UploadHandler(name, size, ai, text, e) ==
    IF ~e.posted \/ name = Str_Empty
    THEN AbortUpload({}, Msg_NoFile, <<>>)
    ELSE LET v == ValidateFile(name, size, <<>>)
         IN  IF ~v.ok THEN AbortUpload({}, v.msg, <<"validate_file">>)
             ELSE ProcessUpload(name, ai, text, e)

UploadNames ==
    {Str_Empty,
     Str_cv \o Str_Dot \o Str_pdf,
     Str_cv \o Str_Dot \o <<"D", "o", "c", "x">>,
     Str_cv \o Str_Dot \o Str_txt,
     Str_cv \o Str_Dot \o Str_json,
     Str_cv \o Str_Dot \o Str_rtf}

UploadOutcomes ==
    {[sec \in Range(SectionOrder) |-> "ok"],
     [sec \in Range(SectionOrder) |-> IF sec = "experience" THEN "raises" ELSE "ok"]}

UploadEnvs ==
    [probe : BOOLEAN, outcome : UploadOutcomes, llm : {LLM_Full},
     posted : BOOLEAN, content : {"text", "blank", "resume", "partial", "names", "invalid"},
     backend : {"ok", "unavailable"}, unlink : BOOLEAN]

InitUpload ==
    /\ pc = "ready"
    /\ filename \in UploadNames
    /\ file_size \in {MAX_FILE_SIZE, MAX_FILE_SIZE + 1}
    /\ mime_type = <<>>
    /\ use_ai \in BOOLEAN
    /\ env \in UploadEnvs
    /\ IF FileExtension(filename) = Str_json
       THEN env.content \in {"resume", "partial", "names", "invalid"}
       ELSE env.content \in {"text", "blank"}
    /\ resume_text = IF env.content = "text" THEN Text_Jane ELSE Str_Empty
    /\ IdleMerge /\ IdleWeb /\ IdleFile /\ IdleAux

\* POST /upload
Upload ==
    /\ pc = "ready"
    /\ pc' = "uploaded"
    /\ LET h == UploadHandler(filename, file_size, use_ai, resume_text, env)
       IN  /\ upload_dir' = h.dir
           /\ session' = h.session
           /\ flashed' = h.flashed
           /\ calls' = h.calls
           /\ response' = h.response
    /\ UNCHANGED <<validation, structured>>
    /\ UNCHANGED <<mergeVars, reqVars, auxVars, fileVars>>

SpecUpload == InitUpload /\ [][Upload]_vars

\* the upload has a file part with a name
FilePosted == env.posted /\ filename # Str_Empty

\* the calls that persist or process the upload
ProcessingCalls == {"save", "parse_json_resume", "extract_text", "structure_resume"}

C16_SavedFileDeleted ==
    (pc = "uploaded" /\ \E i \in 1..Len(calls) : calls[i] = "save")
    => upload_dir = {}

\* text extraction failed: no text and an error
ExtractionFailed ==
    LET x == ExtractText(FileExtension(filename), resume_text, env)
    IN  x.text = Str_Empty /\ x.error # <<>>

\* C20: a text-extraction failure on a validated upload never aborts the
\* pipeline: the handler still calls structure_resume, stores a fragment with
\* the warning in the session and proceeds to the preview.
C20_ExtractionFailureContinues ==
    (/\ pc = "uploaded" /\ FilePosted
     /\ ValidateFile(filename, file_size, <<>>).ok
     /\ FileExtension(filename) # Str_json
     /\ ExtractionFailed)
    => /\ \E i \in 1..Len(calls) : calls[i] = "structure_resume"
       /\ DOMAIN session = {"extracted_resume", "extraction_error"}
       /\ response = "redirect upload_preview"

(***************************************************************************)
(* master_resume.json.  The file's content is the sequence of chunks that  *)
(* json.dump writes: the opening brace, one chunk per top-level member and *)
(* the closing brace.  open(path, 'w') makes the content empty; json.load  *)
(* raises on a content that is not a whole object.                         *)
(***************************************************************************)
KeyOrder ==
    <<"meta", "personal", "experience", "education", "skills", "projects",
      "volunteer", "awards", "raw_text">>

OpenBrace == [kind |-> "{", key |-> "", value |-> <<>>]
CloseBrace == [kind |-> "}", key |-> "", value |-> <<>>]
Member(doc, k) == [kind |-> "member", key |-> k, value |-> doc[k]]

\* the chunks json.dump(doc, f, indent=2) writes
Serialize(doc) ==
    LET Present(k) == k \in DOMAIN doc
        keys == SelectSeq(KeyOrder, Present)
    IN  <<OpenBrace>> \o [i \in 1..Len(keys) |-> Member(doc, keys[i])] \o <<CloseBrace>>

\* whether json.load accepts the content
WellFormed(content) ==
    /\ Len(content) >= 2
    /\ content[1].kind = "{"
    /\ content[Len(content)].kind = "}"
    /\ \A i \in 2..(Len(content) - 1) : content[i].kind = "member"

\* json.load(f) of a well-formed content
Parse(content) ==
    LET keys == {content[i].key : i \in 2..(Len(content) - 1)}
    IN  [k \in keys |->
            content[CHOOSE i \in 2..(Len(content) - 1) : content[i].key = k].value]

(***************************************************************************)
(* The experience editor of app.py: POST /experience with action add or    *)
(* delete.  assigned is the history of the ids given to Positions, in the  *)
(* order they were given.                                                  *)
(***************************************************************************)
MaxAdds == 3       \* adds made through the editor in one behaviour

EditorMarkerChars == {"U+2022", "-", "*", " "}

\* lines 348-357: the bullets of the form's text area
RECURSIVE EditorBullets(_, _)
EditorBullets(lines, made) ==
    IF lines = <<>> THEN made
    ELSE IF Strip(Head(lines)) # Str_Empty
    THEN EditorBullets(Tail(lines),
             Append(made, [id |-> BulletId(Len(made) + 1),
                           original |-> LStripChars(Strip(Head(lines)), EditorMarkerChars),
                           keywords |-> <<>>,
                           metrics |-> EmptyDict,
                           tailored_versions |-> EmptyDict]))
    ELSE EditorBullets(Tail(lines), made)

\* lines 336-357: the Position built from the form
NewExperience(resume, form) ==
    [id |-> ExpId(Len(resume["experience"]) + 1),
     company |-> form.company,
     title |-> form.title,
     location |-> Str_Empty,
     start_date |-> form.start_date,
     end_date |-> Str_Empty,
     current |-> form.current,
     bullets |-> EditorBullets(SplitLines(Strip(form.bullets)), <<>>)]

\* lines 335-359: action == "add"
EditorAdd(resume, form) ==
    [resume EXCEPT !["experience"] = <<NewExperience(resume, form)>> \o @]

\* lines 366-368: action == "delete"
EditorDelete(resume, exp_id) ==
    LET Kept(e) == e.id # exp_id
    IN  [resume EXCEPT !["experience"] = SelectSeq(@, Kept)]

Text_Bullets == <<"-", " ", "a", "\n", "\n", "U+2022", " ", "b">>

AddForms ==
    [company : {Str_Acme, Str_MIT}, title : {Str_Eng}, start_date : {Str_2020},
     current : {FALSE}, bullets : {Str_Empty, Text_Bullets}]

\* a profile as the application ships it, with the Positions given
ProfileWith(experience) ==
    [meta |-> [last_updated |-> Str_2020],
     personal |-> [f \in PersonalFields |-> Str_Empty],
     experience |-> experience,
     education |-> <<>>,
     skills |-> [c \in {"technical", "soft", "tools"} |-> <<>>]]

\* the Position an earlier add left in the profile
FirstPosition ==
    [id |-> ExpId(1), company |-> Str_CS, title |-> Str_Eng, location |-> Str_Empty,
     start_date |-> Str_2020, end_date |-> Str_Empty, current |-> FALSE, bullets |-> <<>>]

\* the Position a second add left above it
SecondPosition == [FirstPosition EXCEPT !.id = ExpId(2), !.company = Str_BS]

InitEditor ==
    /\ pc = "ready"
    /\ \E l \in {<<>>, <<FirstPosition>>} :
          /\ master_file = Serialize(ProfileWith(l))
          /\ assigned = [i \in 1..Len(l) |-> l[i].id]
    /\ requests = <<>>
    /\ local = <<>>
    /\ rpc = <<>>
    /\ IdleMerge /\ IdleReq /\ IdleWeb /\ IdleAux

\* POST /experience, action=add
ExperienceAdd ==
    /\ pc = "ready"
    /\ Len(assigned) < MaxAdds
    /\ \E form \in AddForms :
          LET resume == Parse(master_file)
          IN  /\ master_file' = Serialize(EditorAdd(resume, form))
              /\ assigned' = Append(assigned, NewExperience(resume, form).id)
              /\ flashed' = <<"Experience added!">>
    /\ response' = "redirect experience"
    /\ UNCHANGED <<pc, requests, local, rpc, mergeVars, reqVars, auxVars>>
    /\ UNCHANGED <<validation, upload_dir, session, calls, structured>>

\* POST /experience, action=delete
ExperienceDelete ==
    /\ pc = "ready"
    /\ \E n \in 1..MaxAdds :
          master_file' = Serialize(EditorDelete(Parse(master_file), ExpId(n)))
    /\ flashed' = <<"Experience removed.">>
    /\ response' = "redirect experience"
    /\ UNCHANGED <<pc, requests, local, rpc, assigned, mergeVars, reqVars, auxVars>>
    /\ UNCHANGED <<validation, upload_dir, session, calls, structured>>

NextEditor == ExperienceAdd \/ ExperienceDelete

SpecEditor == InitEditor /\ [][NextEditor]_vars

\* C17: over any sequence of adds and deletes in the experience editor, no two
\* Positions of the master profile share an id, and an id once given to a
\* Position is never given to another one.
C17_EditorIdsNeverReused ==
    /\ DistinctIds(Parse(master_file)["experience"])
    /\ \A i, j \in 1..Len(assigned) : assigned[i] = assigned[j] => i = j

(***************************************************************************)
(* Two requests served at once (app.run serves each request on its own     *)
(* thread).  A request reads master_resume.json, changes its own copy and  *)
(* writes the file back; nothing in app.py orders the reads and writes of  *)
(* different requests.  requests[i] is the form of request i, rpc[i] its   *)
(* position and local[i] the document it loaded.                           *)
(***************************************************************************)
\* x.split(",")
RECURSIVE SplitCommas(_)
SplitCommas(t) ==
    IF \E i \in 1..Len(t) : t[i] = ","
    THEN LET i == CHOOSE k \in 1..Len(t) : t[k] = "," /\ \A j \in 1..(k - 1) : t[j] # ","
         IN  <<SubSeq(t, 1, i - 1)>> \o SplitCommas(SubSeq(t, i + 1, Len(t)))
    ELSE <<t>>

\* [s.strip() for s in text.split(",") if s.strip()]
SkillsField(text) ==
    LET parts == SplitCommas(text)
        NonBlank(x) == Strip(x) # Str_Empty
        kept == SelectSeq(parts, NonBlank)
    IN  [i \in 1..Len(kept) |-> Strip(kept[i])]

Text_Skills == Str_SQL \o <<",", " ">> \o Str_Git \o <<",", " ">>

\* profile(), POST, lines 293-305
ProfileEdit(resume, req) ==
    [resume EXCEPT
        !["personal"] = [f \in (DOMAIN @) \cup PersonalFields |->
                            IF f = "name" THEN req.name
                            ELSE IF f \in PersonalFields THEN Str_Empty ELSE @[f]],
        !["skills"] = [c \in (DOMAIN @) \cup {"technical", "soft", "tools"} |->
                          IF c = "technical" THEN SkillsField(Text_Skills)
                          ELSE IF c \in {"soft", "tools"} THEN SkillsField(Str_Empty)
                          ELSE @[c]],
        !["meta"] = Put(@, "last_updated", Today)]

\* upload_confirm(), lines 493-509: the fragment rebuilt from the form
UpdatedExtracted(req, sess) ==
    [personal |-> [f \in PersonalFields |-> IF f = "name" THEN req.name ELSE Str_Empty],
     experience |-> FormatExperience(<<[company |-> req.company, title |-> Str_Eng,
                                        start_date |-> Str_2021]>>),
     education |-> <<>>,
     skills |-> [c \in Range(Categories) |->
                    IF c = "certifications"
                    THEN Get(Get(sess["extracted_resume"], "skills", EmptyDict),
                             "certifications", <<>>)
                    ELSE <<>>]]

\* save_master_resume, line 481: the document written
Stamped(resume_data) ==
    Put(resume_data, "meta", Put(Get(resume_data, "meta", EmptyDict), "last_updated", Today))

\* the document request req writes, having loaded resume
Handled(req, resume, sess) ==
    CASE req.kind = "add" ->
             EditorAdd(resume, [company |-> req.company, title |-> Str_Eng,
                                start_date |-> Str_2020, current |-> FALSE,
                                bullets |-> Str_Empty])
      [] req.kind = "delete" -> EditorDelete(resume, req.exp_id)
      [] req.kind = "profile" -> ProfileEdit(resume, req)
      [] req.kind = "confirm" ->
             Stamped(MergeWithMaster(UpdatedExtracted(req, sess), resume, req.mode))

Request(kind, company, exp_id, name, m) ==
    [kind |-> kind, company |-> company, exp_id |-> exp_id, name |-> name, mode |-> m]

FirstRequests ==
    {Request("add", Str_Acme, Str_Empty, Str_Empty, ""),
     Request("add", Str_AcmeSp, Str_Empty, Str_Empty, ""),
     Request("delete", Str_Empty, ExpId(2), Str_Empty, "")}

SecondRequests ==
    {Request("add", Str_MIT, Str_Empty, Str_Empty, ""),
     Request("profile", Str_Empty, Str_Empty, Str_Al, ""),
     Request("profile", Str_Empty, Str_Empty, Str_Bo, ""),
     Request("confirm", Str_MIT, Str_Empty, Str_Empty, "append"),
     Request("confirm", Str_MIT, Str_Empty, Str_Empty, "merge")}

\* what /upload left in the session of the client that confirms
PreviewSession ==
    [extracted_resume |-> [skills |-> [certifications |-> <<Str_SQL>>]],
     extraction_error |-> <<>>]

InitRace ==
    /\ pc = "serving"
    /\ master_file = Serialize(ProfileWith(<<SecondPosition, FirstPosition>>))
    /\ requests \in FirstRequests \X SecondRequests
    /\ local = <<EmptyDict, EmptyDict>>
    /\ rpc = <<"start", "start">>
    /\ assigned = <<>>
    /\ session = PreviewSession
    /\ validation = NoResult /\ upload_dir = {} /\ flashed = <<>> /\ calls = <<>>
    /\ response = "" /\ structured = NoResult
    /\ IdleMerge /\ IdleReq /\ IdleAux

\* with open(resume_path, 'r') as f: json.load(f)   (lines 289, 329, 513)
ReadMaster(i) ==
    /\ rpc[i] = "start"
    /\ local' = [local EXCEPT ![i] = Parse(master_file)]
    /\ rpc' = [rpc EXCEPT ![i] = "loaded"]
    /\ UNCHANGED <<pc, master_file, requests, assigned, mergeVars, reqVars, auxVars, webVars>>

\* the rest of the handler: change the loaded document and write the file
\* (lines 293-310, 335-364, 366-373, 517-530)
WriteMaster(i) ==
    /\ rpc[i] = "loaded"
    /\ master_file' = Serialize(Handled(requests[i], local[i], session))
    /\ rpc' = [rpc EXCEPT ![i] = "done"]
    /\ session' = IF requests[i].kind = "confirm" THEN EmptyDict ELSE session
    /\ flashed' = Append(flashed, requests[i].kind)
    /\ UNCHANGED <<pc, requests, local, assigned, mergeVars, reqVars, auxVars>>
    /\ UNCHANGED <<validation, upload_dir, calls, response, structured>>

NextRace == \E i \in 1..2 : ReadMaster(i) \/ WriteMaster(i)

SpecRace == InitRace /\ [][NextRace]_vars

\* the profile shows the change request req asked for
Reflects(profile, req) ==
    CASE req.kind \in {"add", "confirm"} ->
             \E i \in 1..Len(profile["experience"]) :
                 profile["experience"][i].company = req.company
      [] req.kind = "delete" ->
             \A i \in 1..Len(profile["experience"]) :
                 profile["experience"][i].id = req.exp_id
                 => profile["experience"][i] \notin {FirstPosition, SecondPosition}
      [] req.kind = "profile" -> profile["personal"]["name"] = req.name

\* C18: read-modify-write sequences on the master profile never overlap: no
\* request writes the file while another holds a copy it has yet to write
\* back, and after two requests complete the persisted profile shows the
\* changes of both.
C18_NoLostUpdate ==
    /\ \A i, j \in 1..2 : (i # j /\ rpc[i] = "done" /\ rpc[j] = "loaded")
                          => local[j] = Parse(master_file)
    /\ (\A i \in 1..2 : rpc[i] = "done")
       => \A i \in 1..2 : Reflects(Parse(master_file), requests[i])

(***************************************************************************)
(* save_master_resume, step by step: open(save_path, 'w') empties the      *)
(* file, json.dump writes the chunks one after the other, and leaving the  *)
(* with block closes the file.  A write can raise OSError (disk full) and   *)
(* the process can be stopped between any two steps.  master is the        *)
(* profile the file held before the call, result the document to save and  *)
(* local the chunks still to be written.                                   *)
(***************************************************************************)
SavedDocuments(current) ==
    {MergeWithMaster(UpdatedExtracted(Request("confirm", Str_MIT, Str_Empty, Str_Al, m),
                                      PreviewSession),
                     current, m) : m \in {"append", "merge", "replace"}}

InitSave ==
    /\ pc = "ready"
    /\ mode = ""
    /\ master \in {ProfileWith(<<>>), ProfileWith(<<FirstPosition>>),
                   ProfileWith(<<SecondPosition, FirstPosition>>)}
    /\ master_file = Serialize(master)
    /\ result \in SavedDocuments(master)
    /\ local = <<>>
    /\ extracted = <<>> /\ masterBefore = <<>> /\ extractedBefore = <<>>
    /\ rawExperience = <<>> /\ formatted = NoResult
    /\ requests = <<>> /\ rpc = <<>> /\ assigned = <<>>
    /\ IdleReq /\ IdleWeb /\ IdleAux

saveUnchanged == <<mergeVars, reqVars, auxVars, webVars, requests, rpc, assigned>>

\* line 483 failing: the file cannot be opened for writing
SaveOpenFails ==
    /\ pc = "ready"
    /\ pc' = "failed"
    /\ UNCHANGED <<master_file, local, saveUnchanged>>

\* lines 481-483: stamp the document and open the file, which truncates it
SaveOpen ==
    /\ pc = "ready"
    /\ pc' = "writing"
    /\ master_file' = <<>>
    /\ local' = Serialize(Stamped(result))
    /\ UNCHANGED saveUnchanged

\* line 484: json.dump hands the next chunk to f.write
SaveWrite ==
    /\ pc = "writing"
    /\ local # <<>>
    /\ master_file' = Append(master_file, Head(local))
    /\ local' = Tail(local)
    /\ UNCHANGED <<pc, saveUnchanged>>

\* line 484 raising, or the process stopped during lines 483-484
SaveFails ==
    /\ pc = "writing"
    /\ pc' = "failed"
    /\ UNCHANGED <<master_file, local, saveUnchanged>>

\* leaving the with block after the last chunk, line 486
SaveClose ==
    /\ pc = "writing"
    /\ local = <<>>
    /\ pc' = "saved"
    /\ UNCHANGED <<master_file, local, saveUnchanged>>

NextSave == SaveOpenFails \/ SaveOpen \/ SaveWrite \/ SaveFails \/ SaveClose

SpecSave == InitSave /\ [][NextSave]_vars

\* C19: if writing the master profile in save_master_resume fails or is
\* interrupted at any point, the file holds a complete profile document,
\* the previous one or the new one, never an empty or partial one.
C19_FailedSaveKeepsWholeProfile ==
    pc = "failed"
    => /\ WellFormed(master_file)
       /\ Parse(master_file) \in {master, Stamped(result)}

(***************************************************************************)
(* Further properties of merge_with_master (specification Spec).           *)
(***************************************************************************)
\* C21: in append and merge modes the master's experience list is the tail of
\* the result's: every master Position is there with the same fields and id,
\* in the same order, and every added Position comes before them.
C21_MasterExperienceIsTail ==
    AppendOrMerge
    => LET r == ExperienceOf(result)
           m == ExperienceOf(masterBefore)
           added == Len(r) - Len(m)
       IN  /\ added >= 0
           /\ \A i \in 1..Len(m) : added + i \in 1..Len(r) /\ r[added + i] = m[i]
           /\ \A i \in 1..added :
                  i \in 1..Len(r) /\ r[i] \in Range(ExperienceOf(extractedBefore))

C21_Witness ==
    /\ AppendOrMerge
    /\ Len(ExperienceOf(masterBefore)) = 2
    /\ masterBefore["experience"][1].id = ExpId(2)
    /\ masterBefore["experience"][2].id = ExpId(1)
    /\ Len(ExperienceOf(extractedBefore)) = 1
    /\ Len(ExperienceOf(result)) = 3
    /\ result["experience"][1] = extractedBefore["experience"][1]
    /\ result["experience"][2] = masterBefore["experience"][1]

\* the entries of list ee whose (institution, degree) pair no entry of me has
RECURSIVE NewEducation(_, _)
NewEducation(ee, me) ==
    IF ee = <<>> THEN <<>>
    ELSE (IF \A j \in 1..Len(me) :
                 ~(me[j].institution = Head(ee).institution
                   /\ me[j].degree = Head(ee).degree)
          THEN <<Head(ee)>> ELSE <<>>)
         \o NewEducation(Tail(ee), me)

\* C22: in append and merge modes an extracted education entry is added iff no
\* master entry has exactly its (institution, degree) pair, and the added
\* entries follow the master's entries in extraction order.
C22_EducationAppended ==
    AppendOrMerge
    => EducationOf(result) =
           EducationOf(masterBefore)
           \o NewEducation(EducationOf(extractedBefore), EducationOf(masterBefore))

\* an entry with the master's pair and another field of study is dropped, one
\* with another degree of the same institution is appended
C22_Witness ==
    /\ AppendOrMerge
    /\ Len(EducationOf(masterBefore)) = 1
    /\ Len(EducationOf(extractedBefore)) = 2
    /\ extractedBefore["education"][1].degree = masterBefore["education"][1].degree
    /\ extractedBefore["education"][1].field # masterBefore["education"][1].field
    /\ extractedBefore["education"][2].degree # masterBefore["education"][1].degree
    /\ Len(EducationOf(result)) = 2
    /\ result["education"][2] = extractedBefore["education"][2]

\* the number of entries of list l with the triple of entry e
RECURSIVE CountTriple(_, _)
CountTriple(e, l) ==
    IF l = <<>> THEN 0
    ELSE (IF NoSameTriple(e, <<Head(l)>>) THEN 0 ELSE 1) + CountTriple(e, Tail(l))

\* C28: in append and merge modes, when the extracted fragment has two
\* experience entries with the same (company, title, start_date) triple that
\* no master entry has, the result has exactly one entry with that triple.
C28_NewTripleAddedOnce ==
    AppendOrMerge
    => LET ee == ExperienceOf(extractedBefore)
       IN  \A i, j \in 1..Len(ee) :
               (i # j /\ ~NoSameTriple(ee[i], <<ee[j]>>)
                  /\ NoSameTriple(ee[i], ExperienceOf(masterBefore)))
               => CountTriple(ee[i], ExperienceOf(result)) = 1

(***************************************************************************)
(* Further properties of _format_experience (specification SpecFormat).    *)
(***************************************************************************)
\* the characters a list marker is made of
ListMarkers == Whitespace \cup {"U+2022", "-", "*"}

\* C26: for every string bullet handed to _format_experience the stored
\* original text has no leading list marker: it does not begin with
\* whitespace, a bullet character, a hyphen or an asterisk.
C26_NoLeadingMarker ==
    pc = "formatted"
    => \A i \in 1..Len(formatted) :
           \A k \in 1..Len(formatted[i].bullets) :
               LET original == formatted[i].bullets[k].original
               IN  original = Str_Empty \/ original[1] \notin ListMarkers

\* C27: _format_experience gives the k-th input item the id exp_00k and, in
\* each Position, gives the bullets it keeps the ids bullet_001, bullet_002,
\* ... with no gaps, also when non-string bullets are dropped.
C27_IdsConsecutive ==
    pc = "formatted"
    => /\ Len(formatted) = Len(rawExperience)
       /\ \A i \in 1..Len(formatted) :
              /\ formatted[i].id = ExpId(i)
              /\ \A k \in 1..Len(formatted[i].bullets) :
                     formatted[i].bullets[k].id = BulletId(k)

(***************************************************************************)
(* extract_text_from_pdf.  env.pdfplumber and env.pypdf2 say what each     *)
(* backend does: "unavailable" (its import failed), "raises", or "ran",    *)
(* and then env.text1 and env.text2 are the page texts it joined.          *)
(***************************************************************************)
BackendStates == {"unavailable", "raises", "ran"}

\* one backend block (lines 115-128 and 131-145): the pair to return at once
\* (<<>> when the block falls through), and text and error after the block
BackendBlock(state, pages, text, error, name) ==
    CASE state = "unavailable" -> [returned |-> <<>>, text |-> text, error |-> error]
      [] state = "raises" -> [returned |-> <<>>, text |-> text, error |-> <<name>>]
      [] state = "ran" ->
             IF Strip(pages) # Str_Empty
             THEN [returned |-> <<[text |-> Strip(pages), error |-> <<>>]>>,
                   text |-> pages, error |-> error]
             ELSE [returned |-> <<>>, text |-> pages, error |-> error]

\* extract_text_from_pdf(filepath): the text and the error (<<>> is None)
ExtractTextFromPdf(e) ==
    LET first == BackendBlock(e.pdfplumber, e.text1, Str_Empty, <<>>, "pdfplumber error: ")
        second == BackendBlock(e.pypdf2, e.text2, first.text, first.error, "PyPDF2 error: ")
    IN  IF first.returned # <<>> THEN first.returned[1]
        ELSE IF second.returned # <<>> THEN second.returned[1]
        ELSE IF Strip(second.text) = Str_Empty
        THEN [text |-> Str_Empty, error |-> <<Msg_NoText>>]
        ELSE [text |-> Strip(second.text), error |-> second.error]

PdfEnvs ==
    [pdfplumber : BackendStates, pypdf2 : BackendStates,
     text1 : {Str_Empty, Str_TabNl, Text_Jane}, text2 : {Str_Empty, Str_TabNl, Text_Jane}]

InitPdf ==
    /\ pc = "ready"
    /\ filename = Str_cv \o Str_Dot \o Str_pdf
    /\ file_size = 0
    /\ mime_type = <<>>
    /\ use_ai = FALSE
    /\ resume_text = <<>>
    /\ env \in PdfEnvs
    /\ IdleMerge /\ IdleWeb /\ IdleFile /\ IdleAux

\* resume_parser.extract_text_from_pdf(filepath)
ExtractPdf ==
    /\ pc = "ready"
    /\ pc' = "extracted"
    /\ extraction' = ExtractTextFromPdf(env)
    /\ UNCHANGED <<tailor_master, tailored, jobs, jobs_file, new_jobs, scraped>>
    /\ UNCHANGED <<mergeVars, reqVars, webVars, fileVars>>

SpecPdf == InitPdf /\ [][ExtractPdf]_vars

\* what the call returns when neither backend could be imported
NoBackendResult ==
    ExtractTextFromPdf([pdfplumber |-> "unavailable", pypdf2 |-> "unavailable",
                        text1 |-> Str_Empty, text2 |-> Str_Empty])

\* a backend ran, and every backend that ran produced no text
RanEmpty ==
    /\ "ran" \in {env.pdfplumber, env.pypdf2}
    /\ env.pdfplumber = "ran" => Strip(env.text1) = Str_Empty
    /\ env.pypdf2 = "ran" => Strip(env.text2) = Str_Empty

\* C25: the result of extract_text_from_pdf tells the case where both backends
\* are unavailable from the case where a backend ran and produced empty text:
\* both return empty text, with different warnings.
C25_UnavailableToldFromEmpty ==
    (pc = "extracted" /\ RanEmpty)
    => /\ extraction.text = Str_Empty
       /\ extraction # NoBackendResult

(***************************************************************************)
(* Tailoring.  app.py builds one ResumeTailor when the module is loaded;   *)
(* its constructor reads master_resume.json into tailor.master_resume      *)
(* (tailor_master).  Afterwards requests edit the master profile file and  *)
(* POST /job/<id>/tailor calls tailor_full_resume.  env holds the answers  *)
(* of the model: whether the keyword response parses, the summary it       *)
(* writes, and the prefix it puts in front of a rewritten bullet.          *)
(***************************************************************************)
MaxEdits == 2      \* writes of the master profile in one behaviour

TailorMarkerChars == {"U+201A", "U+00C4", "U+00A2", "-", "*"}
QuoteChars == {"\"", "'"}

\* str.strip(chars)
StripChars(x, chars) == RStripChars(LStripChars(x, chars), chars)

\* extract_keywords and lines 222-224: the keywords used
Keywords(e) ==
    IF e.keywords_ok
    THEN [required_skills |-> <<Str_python, Str_Git>>, industry_keywords |-> <<>>]
    ELSE [required_skills |-> <<>>, industry_keywords |-> <<>>]

\* tailor_bullet, lines 155-160: the model's response cleaned up
TailorBullet(original, e) ==
    StripChars(Strip(LStripChars(Strip(e.bullet_prefix \o original), TailorMarkerChars)),
               QuoteChars)

\* tailor_summary, line 202
TailorSummary(e) == StripChars(Strip(e.summary), QuoteChars)

\* lines 236-254: one Position of the tailored document
TailoredJob(job, e) ==
    [company |-> job.company,
     title |-> job.title,
     location |-> job.location,
     start_date |-> job.start_date,
     end_date |-> IF job.current THEN Str_Present ELSE job.end_date,
     bullets |-> [k \in 1..Len(job.bullets) |-> TailorBullet(job.bullets[k].original, e)]]

\* tailor_full_resume, lines 204-286: loaded is self.master_resume and content
\* what master_resume.json holds now, which the method does not read
TailorFullResume(loaded, content, e) ==
    LET experience == Get(loaded, "experience", <<>>)
        all_candidate_skills == SkillList(loaded, "technical")
                                \o SkillList(loaded, "tools")
                                \o SkillList(loaded, "soft")
        required == {Lower(x) : x \in Range(Keywords(e).required_skills)}
        Matches(x) == Lower(x) \in required
    IN  [job_id |-> "job1",
         personal |-> Put(loaded["personal"], "summary", TailorSummary(e)),
         summary |-> TailorSummary(e),
         experience |-> [i \in 1..Len(experience) |-> TailoredJob(experience[i], e)],
         education |-> Get(loaded, "education", <<>>),
         skills |-> Get(loaded, "skills", EmptyDict),
         skills_highlighted |-> SelectSeq(all_candidate_skills, Matches),
         keywords_extracted |-> Keywords(e)]

TailorEnvs ==
    [keywords_ok : BOOLEAN,
     summary : {<<"\"", "S", "\"", "\n">>},
     bullet_prefix : {Str_Empty, <<"-", " ">>}]

EditRequests ==
    {Request("add", Str_Acme, Str_Empty, Str_Empty, ""),
     Request("profile", Str_Empty, Str_Empty, Str_Al, ""),
     Request("confirm", Str_MIT, Str_Empty, Str_Bo, "merge")}

\* the state once app.py has been loaded
InitTailor ==
    /\ pc = "started"
    /\ env \in TailorEnvs
    /\ master_file = Serialize(ProfileWith(<<FirstPosition>>))
    /\ tailor_master = Parse(master_file)
    /\ tailored = NoResult
    /\ session = PreviewSession
    /\ filename = <<>> /\ file_size = 0 /\ mime_type = <<>> /\ use_ai = FALSE
    /\ resume_text = <<>>
    /\ validation = NoResult /\ upload_dir = {} /\ flashed = <<>> /\ calls = <<>>
    /\ response = "" /\ structured = NoResult
    /\ requests = <<>> /\ local = <<>> /\ rpc = <<>> /\ assigned = <<>>
    /\ extraction = NoResult
    /\ jobs = <<>> /\ jobs_file = <<>> /\ new_jobs = <<>> /\ scraped = <<>>
    /\ IdleMerge

\* a profile edit, an experience add or an upload_confirm, served alone
EditMaster ==
    /\ Len(flashed) < MaxEdits
    /\ \E req \in EditRequests :
          /\ master_file' = Serialize(Handled(req, Parse(master_file), PreviewSession))
          /\ flashed' = Append(flashed, req.kind)
    /\ pc' = "edited"
    /\ UNCHANGED <<tailor_master, tailored, extraction, jobs, jobs_file, new_jobs, scraped>>
    /\ UNCHANGED <<mergeVars, reqVars, requests, local, rpc, assigned>>
    /\ UNCHANGED <<validation, upload_dir, session, calls, response, structured>>

\* POST /job/<job_id>/tailor, app.py lines 147-160
Tailor ==
    /\ pc' = "tailored"
    /\ tailored' = TailorFullResume(tailor_master, master_file, env)
    /\ UNCHANGED <<tailor_master, extraction, jobs, jobs_file, new_jobs, scraped>>
    /\ UNCHANGED <<mergeVars, reqVars, webVars, fileVars>>

NextTailor == EditMaster \/ Tailor

SpecTailor == InitTailor /\ [][NextTailor]_vars

\* the sections of a tailored document that come from the profile
FromProfile(t) ==
    [personal |-> [f \in DOMAIN t.personal \ {"summary"} |-> t.personal[f]],
     companies |-> [i \in 1..Len(t.experience) |-> t.experience[i].company],
     education |-> t.education,
     skills |-> t.skills]

\* the same sections of the profile that master_resume.json holds
FromFile ==
    LET profile == Parse(master_file)
    IN  [personal |-> [f \in DOMAIN profile["personal"] \ {"summary"} |->
                          profile["personal"][f]],
         companies |-> [i \in 1..Len(profile["experience"]) |->
                           profile["experience"][i].company],
         education |-> profile["education"],
         skills |-> profile["skills"]]

\* C23: every tailoring run uses the master profile as currently persisted:
\* after a write of master_resume.json, the next tailor_full_resume builds its
\* experience, skills and personal data from the new content.
C23_TailorUsesPersistedProfile ==
    pc = "tailored" => FromProfile(tailored) = FromFile

(***************************************************************************)
(* The jobs database.  jobs is JobScraper.jobs["jobs"], jobs_file the      *)
(* list held by jobs_database.json, new_jobs what the last scrape          *)
(* returned.  scraped records the last call: the rows scrape_jobs          *)
(* delivered and the list as it was when the call began.  env says         *)
(* whether JobSpy could be imported.                                       *)
(***************************************************************************)
MaxRows == 3       \* rows delivered to one scrape call
MaxScrapes == 2    \* scrape calls in one behaviour

\* the digest is cut to a fixed number of values (hexdigest()[:12]); the
\* model keeps a fixed function of the encoded string with a small range
HashRange == 16

\* str.encode(): the code of each character used by the rows
Ord(c) ==
    CASE c = "-" -> 45
      [] c = "A" -> 65
      [] c = "B" -> 66
      [] c = "E" -> 69
      [] c = "u" -> 117
      [] c = "v" -> 118

RECURSIVE Digest(_)
Digest(x) == IF x = <<>> THEN 0 ELSE (Ord(Head(x)) + Digest(Tail(x))) % HashRange

\* _generate_job_id, lines 67-70
GenerateJobId(job) ==
    Digest(job.title \o <<"-">> \o job.company \o <<"-">> \o job.job_url)

\* lines 127-140: the JobListing of a row
JobListing(job_id, row) ==
    [id |-> job_id, title |-> row.title, company |-> row.company,
     url |-> row.job_url, status |-> "new"]

Ids(l) == {l[i].id : i \in 1..Len(l)}

\* the loop with existing_ids read once, before the first row
ScrapeLoop_IdsOnce(rows, db, n) ==
    LET existing_ids == Ids(db)
        F[k \in 0..n] ==
            IF k = 0 THEN [jobs |-> db, new_jobs |-> <<>>]
            ELSE LET job_id == GenerateJobId(rows[k])
                 IN  IF job_id \in existing_ids THEN F[k - 1]
                     ELSE [jobs |-> Append(F[k - 1].jobs, JobListing(job_id, rows[k])),
                           new_jobs |-> Append(F[k - 1].new_jobs,
                                               JobListing(job_id, rows[k]))]
    IN  F[n]

\* scrape, lines 118-143: the first n rows handled, starting from the list db
ScrapeLoop(rows, db, n) ==
    LET F[k \in 0..n] ==
            IF k = 0 THEN [jobs |-> db, new_jobs |-> <<>>]
            ELSE LET job_id == GenerateJobId(rows[k])
                     existing_ids == Ids(F[k - 1].jobs)
                 IN  IF job_id \in existing_ids THEN F[k - 1]
                     ELSE [jobs |-> Append(F[k - 1].jobs, JobListing(job_id, rows[k])),
                           new_jobs |-> Append(F[k - 1].new_jobs,
                                               JobListing(job_id, rows[k]))]
    IN  F[n]

RowPool ==
    {[title |-> <<"E", "-", "A">>, company |-> <<"B">>, job_url |-> <<"u">>],
     [title |-> <<"E">>, company |-> <<"A", "-", "B">>, job_url |-> <<"u">>],
     [title |-> <<"E">>, company |-> <<"B">>, job_url |-> <<"v">>]}

RowLists == UNION {[1..n -> RowPool] : n \in 0..MaxRows}

\* a JobScraper on a data directory without jobs_database.json
InitScrape ==
    /\ pc = "constructed"
    /\ env \in [jobspy : BOOLEAN]
    /\ jobs = <<>>
    /\ jobs_file = <<>>
    /\ new_jobs = <<>>
    /\ scraped = <<>>
    /\ extraction = NoResult /\ tailor_master = <<>> /\ tailored = NoResult
    /\ calls = <<>>
    /\ validation = NoResult /\ upload_dir = {} /\ session = <<>> /\ flashed = <<>>
    /\ response = "" /\ structured = NoResult
    /\ filename = <<>> /\ file_size = 0 /\ mime_type = <<>> /\ use_ai = FALSE
    /\ resume_text = <<>>
    /\ IdleMerge /\ IdleFile

scrapeUnchanged ==
    <<mergeVars, reqVars, fileVars, extraction, tailor_master, tailored,
      validation, upload_dir, session, flashed, response, structured>>

\* scrape, line 97: JobSpy missing
ScrapeUnavailable ==
    /\ Len(calls) < MaxScrapes
    /\ ~env.jobspy
    /\ calls' = Append(calls, "scrape")
    /\ pc' = "raised"
    /\ UNCHANGED <<jobs, jobs_file, new_jobs, scraped>>
    /\ UNCHANGED scrapeUnchanged

\* scrape, lines 106-116 and 150-152: scrape_jobs raises
ScrapeFetchFails ==
    /\ Len(calls) < MaxScrapes
    /\ env.jobspy
    /\ new_jobs' = <<>>
    /\ scraped' = <<[rows |-> <<>>, before |-> jobs, completed |-> FALSE]>>
    /\ calls' = Append(calls, "scrape")
    /\ pc' = "scraped"
    /\ UNCHANGED <<jobs, jobs_file>>
    /\ UNCHANGED scrapeUnchanged

\* scrape, lines 106-152, with the rows scrape_jobs returned.  raises_at: the
\* row whose id cannot be computed, or Len(rows) + 1 when _save_jobs cannot
\* write, or 0 when nothing raises
Scrape ==
    /\ Len(calls) < MaxScrapes
    /\ env.jobspy
    /\ \E rows \in RowLists :
       \E raises_at \in 0..(Len(rows) + 1) :
          LET n == IF raises_at = 0 THEN Len(rows) ELSE raises_at - 1
              loop == ScrapeLoop(rows, jobs, n)
              completed == raises_at = 0
          IN  /\ jobs' = loop.jobs
              /\ jobs_file' = IF completed THEN loop.jobs ELSE jobs_file
              /\ new_jobs' = IF completed THEN loop.new_jobs ELSE <<>>
              /\ scraped' = <<[rows |-> rows, before |-> jobs,
                               completed |-> completed]>>
    /\ calls' = Append(calls, "scrape")
    /\ pc' = "scraped"
    /\ UNCHANGED scrapeUnchanged

NextScrape == ScrapeUnavailable \/ ScrapeFetchFails \/ Scrape

SpecScrape == InitScrape /\ [][NextScrape]_vars

NoTwoWithSameId(l) == \A i, j \in 1..Len(l) : l[i].id = l[j].id => i = j

IdOfContent(l) ==
    \A i \in 1..Len(l) :
        l[i].id = GenerateJobId([title |-> l[i].title, company |-> l[i].company,
                                 job_url |-> l[i].url])

IsPrefix(a, b) == Len(a) <= Len(b) /\ SubSeq(b, 1, Len(a)) = a

\* C24: after any sequence of scrape calls the jobs database (in memory and
\* on disk) has no two entries with the same id, each id is the function of
\* the entry's title, company and url, and a completed call appends exactly
\* one entry per id that was not stored before, skipping every other row.
C24_NoDuplicateIds ==
    /\ NoTwoWithSameId(jobs) /\ NoTwoWithSameId(jobs_file)
    /\ IdOfContent(jobs) /\ IdOfContent(jobs_file)
    /\ (scraped # <<>>) =>
          LET call == scraped[1]
              rowIds == {GenerateJobId(call.rows[k]) : k \in 1..Len(call.rows)}
          IN  /\ IsPrefix(call.before, jobs)
              /\ call.completed =>
                    /\ Len(jobs) - Len(call.before)
                          = Cardinality(rowIds \ Ids(call.before))
                    /\ jobs = call.before \o new_jobs
                    /\ jobs_file = jobs

\* a completed call that delivered a row stored by an earlier call, a row
\* repeated within the call, and a new row
C24_Witness ==
    /\ scraped # <<>>
    /\ scraped[1].completed
    /\ new_jobs # <<>>
    /\ \E k \in 1..Len(scraped[1].rows) :
          GenerateJobId(scraped[1].rows[k]) \in Ids(scraped[1].before)
    /\ \E k, m \in 1..Len(scraped[1].rows) :
          /\ k < m
          /\ GenerateJobId(scraped[1].rows[k]) = GenerateJobId(scraped[1].rows[m])
          /\ GenerateJobId(scraped[1].rows[k]) \notin Ids(scraped[1].before)

(***************************************************************************)
(* Upload, then confirm.  One client posts files to /upload and forms to   *)
(* /upload/confirm, one request at a time.  requests is the history of     *)
(* the requests served (route and response); local holds the session and   *)
(* the file content as they were when the last request arrived, and        *)
(* whether that request raised inside the try block.                       *)
(***************************************************************************)
MaxRequests == 3   \* requests served in one behaviour

Msg_NoExtracted == "No extracted data found. Please upload a file first."
Msg_SaveError == "Error saving resume: "
Msg_Imported == "Resume imported successfully! Mode: "

SessionKeys == {"extracted_resume", "extraction_error"}

\* session.get('extracted_resume') is None or empty (line 486)
NotExtracted(sess) ==
    "extracted_resume" \notin DOMAIN sess \/ sess["extracted_resume"] = EmptyDict

\* session.pop of both keys (lines 525-526)
SessionPop(sess) == [k \in DOMAIN sess \ SessionKeys |-> sess[k]]

\* json.loads of a posted field: the field holds the text of a JSON value or
\* text that is no JSON
JsonLoads(field) ==
    IF field.valid THEN [raises |-> FALSE, value |-> field.value]
    ELSE [raises |-> TRUE, value |-> <<>>]

\* lines 493-509: the fragment rebuilt from the form
FormData(form, extracted_resume) ==
    LET experience == JsonLoads(form.experience_json)
        education == JsonLoads(form.education_json)
    IN  [raises |-> experience.raises \/ education.raises,
         value |-> [personal |-> [f \in PersonalFields |->
                                     IF f = "name" THEN form.name ELSE Str_Empty],
                    experience |-> experience.value,
                    education |-> education.value,
                    skills |-> [c \in Range(Categories) |->
                                   IF c = "certifications"
                                   THEN Get(Get(extracted_resume, "skills", EmptyDict),
                                            "certifications", <<>>)
                                   ELSE SkillsField(Str_Empty)]]]

HasKeys(l, keys) == \A i \in 1..Len(l) : keys \subseteq DOMAIN l[i]

\* merge_with_master raises KeyError: an entry of either list lacks a key of
\* the dedup tuple (lines 387-389, 394-396, 418-420, 425-427)
MergeRaises(extracted_data, master_data, m) ==
    /\ m # "replace"
    /\ \/ ~HasKeys(Get(master_data, "experience", <<>>), {"company", "title", "start_date"})
       \/ ~HasKeys(Get(extracted_data, "experience", <<>>), {"company", "title", "start_date"})
       \/ ~HasKeys(Get(master_data, "education", <<>>), {"institution", "degree"})
       \/ ~HasKeys(Get(extracted_data, "education", <<>>), {"institution", "degree"})

\* lines 532-534
ConfirmFails(sess, content) ==
    [session |-> sess, master_file |-> content, flashed |-> <<Msg_SaveError>>,
     response |-> "redirect upload_preview", raised |-> TRUE]

\* upload_confirm without the session.pop calls
UploadConfirm_KeepSession(sess, form, content) ==
    IF NotExtracted(sess)
    THEN [session |-> sess, master_file |-> content, flashed |-> <<Msg_NoExtracted>>,
          response |-> "redirect upload", raised |-> FALSE]
    ELSE LET data == FormData(form, sess["extracted_resume"])
             current == Parse(content)
         IN  IF data.raises \/ MergeRaises(data.value, current, form.merge_mode)
             THEN ConfirmFails(sess, content)
             ELSE [session |-> sess,
                   master_file |-> Serialize(Stamped(
                       MergeWithMaster(data.value, current, form.merge_mode))),
                   flashed |-> <<Msg_Imported>>,
                   response |-> "redirect profile", raised |-> FALSE]

\* upload_confirm clearing the session and opening the file for writing
\* before it reads the form
UploadConfirm_WriteFirst(sess, form, content) ==
    IF NotExtracted(sess)
    THEN [session |-> sess, master_file |-> content, flashed |-> <<Msg_NoExtracted>>,
          response |-> "redirect upload", raised |-> FALSE]
    ELSE LET data == FormData(form, sess["extracted_resume"])
             current == Parse(content)
         IN  IF data.raises \/ MergeRaises(data.value, current, form.merge_mode)
             THEN [ConfirmFails(SessionPop(sess), content) EXCEPT !.master_file = <<>>]
             ELSE [session |-> SessionPop(sess),
                   master_file |-> Serialize(Stamped(
                       MergeWithMaster(data.value, current, form.merge_mode))),
                   flashed |-> <<Msg_Imported>>,
                   response |-> "redirect profile", raised |-> FALSE]

\* upload_confirm(), lines 481-534: the session and the file it leaves, what
\* it flashed, its response, and whether the try block raised
UploadConfirm(sess, form, content) ==
    IF NotExtracted(sess)
    THEN [session |-> sess, master_file |-> content, flashed |-> <<Msg_NoExtracted>>,
          response |-> "redirect upload", raised |-> FALSE]
    ELSE LET data == FormData(form, sess["extracted_resume"])
             current == Parse(content)
         IN  IF data.raises \/ MergeRaises(data.value, current, form.merge_mode)
             THEN ConfirmFails(sess, content)
             ELSE [session |-> SessionPop(sess),
                   master_file |-> Serialize(Stamped(
                       MergeWithMaster(data.value, current, form.merge_mode))),
                   flashed |-> <<Msg_Imported>>,
                   response |-> "redirect profile", raised |-> FALSE]

\* a Position as the preview posts it, and one without its start date
PostedPosition ==
    [company |-> Str_Acme, title |-> Str_Eng, start_date |-> Str_2021,
     end_date |-> Str_Empty, current |-> FALSE, bullets |-> <<>>]

PostedWithoutStart == [k \in {"company", "title"} |-> PostedPosition[k]]

JsonFields ==
    {[valid |-> TRUE, value |-> <<>>],
     [valid |-> TRUE, value |-> <<PostedPosition>>],
     [valid |-> TRUE, value |-> <<PostedPosition, PostedWithoutStart>>],
     [valid |-> FALSE, value |-> <<>>]}

ConfirmForms ==
    [name : {Str_Bo}, experience_json : JsonFields,
     education_json : {[valid |-> TRUE, value |-> <<>>]},
     merge_mode : {"replace", "append", "merge"}]

\* the files posted to /upload: a structured resume, text, an empty text file
UploadedFiles ==
    {[name |-> Str_cv \o Str_Dot \o Str_json, content |-> "resume", text |-> Str_Empty],
     [name |-> Str_cv \o Str_Dot \o Str_txt, content |-> "text", text |-> Text_Jane],
     [name |-> Str_cv \o Str_Dot \o Str_txt, content |-> "blank", text |-> Str_Empty]}

UploadEnv(content) ==
    [probe |-> FALSE, outcome |-> [sec \in Range(SectionOrder) |-> "ok"],
     llm |-> LLM_Full, posted |-> TRUE, content |-> content, backend |-> "ok",
     unlink |-> TRUE]

InitConfirm ==
    /\ pc = "serving"
    /\ master_file = Serialize(ProfileWith(<<FirstPosition>>))
    /\ session = EmptyDict
    /\ requests = <<>>
    /\ local = <<>>
    /\ rpc = <<>> /\ assigned = <<>>
    /\ validation = NoResult /\ upload_dir = {} /\ flashed = <<>> /\ calls = <<>>
    /\ response = "" /\ structured = NoResult
    /\ IdleMerge /\ IdleReq /\ IdleAux

Arrived(raised) == [session |-> session, master_file |-> master_file, raised |-> raised]

\* POST /upload
PostUpload ==
    /\ Len(requests) < MaxRequests
    /\ \E file \in UploadedFiles :
          LET h == UploadHandler(file.name, MAX_FILE_SIZE, FALSE, file.text,
                                 UploadEnv(file.content))
          IN  /\ session' = IF h.response = "redirect upload_preview"
                            THEN h.session ELSE session
              /\ upload_dir' = h.dir
              /\ flashed' = h.flashed
              /\ calls' = h.calls
              /\ response' = h.response
              /\ requests' = Append(requests, [route |-> "upload", response |-> h.response])
    /\ local' = Arrived(FALSE)
    /\ UNCHANGED <<pc, master_file, rpc, assigned, validation, structured>>
    /\ UNCHANGED <<mergeVars, reqVars, auxVars>>

\* POST /upload/confirm
PostConfirm ==
    /\ Len(requests) < MaxRequests
    /\ \E form \in ConfirmForms :
          LET h == UploadConfirm(session, form, master_file)
          IN  /\ session' = h.session
              /\ master_file' = h.master_file
              /\ flashed' = h.flashed
              /\ response' = h.response
              /\ requests' = Append(requests, [route |-> "confirm", response |-> h.response])
              /\ local' = Arrived(h.raised)
    /\ UNCHANGED <<pc, rpc, assigned, validation, upload_dir, calls, structured>>
    /\ UNCHANGED <<mergeVars, reqVars, auxVars>>

NextConfirm == PostUpload \/ PostConfirm

SpecConfirm == InitConfirm /\ [][NextConfirm]_vars

LastRequest == requests[Len(requests)]

\* the last request was a confirm, and before it request i was an upload that
\* reached the preview with no imported confirm after it
UploadPending(i) ==
    /\ i < Len(requests)
    /\ requests[i] = [route |-> "upload", response |-> "redirect upload_preview"]
    /\ \A k \in (i + 1)..(Len(requests) - 1) :
          requests[k] # [route |-> "confirm", response |-> "redirect profile"]

\* C29: upload_confirm writes the master profile only when the session holds
\* extracted data left by an earlier upload that reached the preview; a
\* confirm that imported leaves no extracted data in the session; a confirm
\* that finds none is rejected and leaves the master profile file unchanged.
C29_ConfirmNeedsUpload ==
    (requests # <<>> /\ LastRequest.route = "confirm") =>
        /\ (master_file # local.master_file \/ response = "redirect profile")
              => /\ ~NotExtracted(local.session)
                 /\ \E i \in 1..Len(requests) : UploadPending(i)
                 /\ NotExtracted(session)
        /\ NotExtracted(local.session)
              => /\ response = "redirect upload"
                 /\ flashed = <<Msg_NoExtracted>>
                 /\ master_file = local.master_file
        /\ (\A i \in 1..Len(requests) : ~UploadPending(i))
              => master_file = local.master_file

\* an upload, a confirm that imported, and a second confirm that was rejected
C29_Witness ==
    /\ Len(requests) = 3
    /\ requests[1] = [route |-> "upload", response |-> "redirect upload_preview"]
    /\ requests[2] = [route |-> "confirm", response |-> "redirect profile"]
    /\ requests[3] = [route |-> "confirm", response |-> "redirect upload"]
    /\ master_file = local.master_file
    /\ master_file # Serialize(ProfileWith(<<FirstPosition>>))

\* C30: when form parsing or merge_with_master raises during upload_confirm,
\* the master profile file keeps its previous content, the session keeps its
\* extracted data, and the client is sent back to the preview.
C30_FailedConfirmKeepsFile ==
    (requests # <<>> /\ LastRequest.route = "confirm" /\ local.raised) =>
        /\ master_file = local.master_file
        /\ session = local.session
        /\ ~NotExtracted(session)
        /\ flashed = <<Msg_SaveError>>
        /\ response = "redirect upload_preview"

\* a confirm that raised after an upload, the file still what it was
C30_Witness ==
    /\ requests # <<>>
    /\ LastRequest = [route |-> "confirm", response |-> "redirect upload_preview"]
    /\ local.raised
    /\ ~NotExtracted(session)
    /\ master_file = Serialize(ProfileWith(<<FirstPosition>>))

=============================================================================
